---- MODULE Spec2Model ----
(***************************************************************************)
(* A model of the exchanger API client (src/exchanger_api.py): the         *)
(* transport _request with its error classification, the workflow          *)
(* operations and the compound operations safe_pay, safe_cancel and        *)
(* full_exchange.  One client operation runs at a time; each request it    *)
(* sends is answered by the upstream service with any response of a        *)
(* bounded set.  Spec runs every operation; OrderSpec follows a caller who  *)
(* keeps the order snapshot a call returned (held) across later calls.      *)
(* ConcurrentSpec has two callers share one instance.  CacheSpec is the     *)
(* direction-list cache of the calling layer (backend/app/services/        *)
(* exchanger.py) and PollSpec the status-poll route of backend/app/api/     *)
(* routes.py with two requests for one order in progress together.         *)
(*                                                                         *)
(* Texts whose characters the code inspects (error, error_text, the pay    *)
(* and cancel capability) are sequences of one-character strings, so that  *)
(* str(), lower(), strip(), startswith() and the substring test are        *)
(* computed.  Texts the code only compares or tests for emptiness (field   *)
(* names, hashes, ids, method names, dictionary keys) are TLA+ strings.    *)
(***************************************************************************)
EXTENDS Integers, Sequences, FiniteSets, TLC

(***************************************************************************)
(* Texts                                                                   *)
(***************************************************************************)
T_empty == <<>>
T_0 == <<"0">>
T_1 == <<"1">>
T_00 == <<"0", "0">>
T_1_padded == <<" ", "1">>
T_None == <<"N", "o", "n", "e">>
T_True == <<"T", "r", "u", "e">>
T_False == <<"F", "a", "l", "s", "e">>
T_api == <<"a", "p", "i">>
T_API_upper == <<"A", "P", "I">>
T_http == <<"h", "t", "t", "p">>
T_pay_url == <<"h", "t", "t", "p", "s", ":", "/", "/", "p", "a", "y", ".", "m", "e", "/", "1">>
T_cancel_url == <<"h", "t", "t", "p", ":", "/", "/", "x", ".", "i", "o", "/", "c">>
T_base_url == <<"h", "t", "t", "p", "s", ":", "/", "/", "x", "/", "v", "1">>
T_disabled == <<"d", "i", "s", "a", "b", "l", "e", "d">>
P_direction_not_found == <<"d", "i", "r", "e", "c", "t", "i", "o", "n", " ", "n", "o", "t", " ", "f", "o", "u", "n", "d">>
P_method_not_supported == <<"m", "e", "t", "h", "o", "d", " ", "n", "o", "t", " ", "s", "u", "p", "p", "o", "r", "t", "e", "d">>
P_no_bid_exists == <<"n", "o", " ", "b", "i", "d", " ", "e", "x", "i", "s", "t", "s">>
P_api_disabled == <<"a", "p", "i", " ", "d", "i", "s", "a", "b", "l", "e", "d">>
E_direction_caps == <<"D", "i", "r", "e", "c", "t", "i", "o", "n", " ", "N", "O", "T", " ", "f", "o", "u", "n", "d">>
E_method_padded == <<" ", " ", "M", "e", "t", "h", "o", "d", " ", "n", "o", "t", " ", "s", "u", "p", "p", "o", "r", "t", "e", "d", " ">>
E_no_bid == <<"N", "o", " ", "b", "i", "d", " ", "e", "x", "i", "s", "t", "s">>
E_api_disabled == <<"A", "P", "I", " ", "d", "i", "s", "a", "b", "l", "e", "d", "!">>
E_bid_then_direction == <<"n", "o", " ", "b", "i", "d", " ", "e", "x", "i", "s", "t", "s", ",", " ", "d", "i", "r", "e", "c", "t", "i", "o", "n", " ", "n", "o", "t", " ", "f", "o", "u", "n", "d">>
E_disabled_then_method == <<"a", "p", "i", " ", "d", "i", "s", "a", "b", "l", "e", "d", ";", " ", "m", "e", "t", "h", "o", "d", " ", "n", "o", "t", " ", "s", "u", "p", "p", "o", "r", "t", "e", "d">>
E_disabled_then_bid == <<"A", "p", "i", " ", "D", "i", "s", "a", "b", "l", "e", "d", ":", " ", "N", "o", " ", "B", "i", "d", " ", "E", "x", "i", "s", "t", "s">>
E_unknown == <<"L", "i", "m", "i", "t", " ", "e", "x", "c", "e", "e", "d", "e", "d", " ">>
E_near_miss == <<"d", "i", "r", "e", "c", "t", "i", "o", "n", " ", "n", "o", "t", "f", "o", "u", "n", "d">>
E_blank == <<" ", " ">>
T_Rubles_RUB == <<"R", "u", "b", "l", "e", "s", " ", "R", "U", "B">>
T_rubles_rub == <<"r", "u", "b", "l", "e", "s", " ", "r", "u", "b">>
T_Bitcoin_BTC == <<"B", "i", "t", "c", "o", "i", "n", " ", "B", "T", "C">>
T_USDT_TRC20_title == <<"U", "S", "D", "T", " ", "(", "T", "R", "C", "2", "0", ")">>
T_USDT_ERC20_title == <<"U", "S", "D", "T", " ", "(", "E", "R", "C", "2", "0", ")">>
T_tether_trc20 == <<"T", "e", "t", "h", "e", "r", " ", "t", "r", "c", "2", "0", " ", "u", "s", "d", "t">>
Q_RUB == <<"R", "U", "B">>
Q_rub == <<"r", "u", "b">>
Q_BTC == <<"B", "T", "C">>
Q_USDT_TRC20 == <<"U", "S", "D", "T", " ", "T", "R", "C", "2", "0">>
Q_trc20_usdt == <<" ", "t", "r", "c", "2", "0", " ", " ", "u", "s", "d", "t">>
Q_USDT_ERC20 == <<"U", "S", "D", "T", " ", "E", "R", "C", "2", "0">>
Q_USDTTRC20 == <<"U", "S", "D", "T", "T", "R", "C", "2", "0">>

UpperChars == <<"A", "B", "C", "D", "E", "F", "G", "H", "I", "J", "K", "L", "M",
                "N", "O", "P", "Q", "R", "S", "T", "U", "V", "W", "X", "Y", "Z">>
LowerChars == <<"a", "b", "c", "d", "e", "f", "g", "h", "i", "j", "k", "l", "m",
                "n", "o", "p", "q", "r", "s", "t", "u", "v", "w", "x", "y", "z">>
DigitChars == <<"0", "1", "2", "3", "4", "5", "6", "7", "8", "9">>
Whitespace == {" ", "\t", "\n"}

\* str.lower() on the letters A..Z
LowerChar(c) ==
    IF \E i \in DOMAIN UpperChars : UpperChars[i] = c
    THEN LowerChars[CHOOSE i \in DOMAIN UpperChars : UpperChars[i] = c]
    ELSE c
lower(s) == [i \in DOMAIN s |-> LowerChar(s[i])]

\* str.strip(): leading and trailing whitespace removed
RECURSIVE lstrip(_)
lstrip(s) == IF s # <<>> /\ Head(s) \in Whitespace THEN lstrip(Tail(s)) ELSE s
RECURSIVE rstrip(_)
rstrip(s) ==
    IF s # <<>> /\ s[Len(s)] \in Whitespace THEN rstrip(SubSeq(s, 1, Len(s) - 1)) ELSE s
strip(s) == rstrip(lstrip(s))
\* s.rstrip(chars): the trailing characters that are in chars removed
RECURSIVE rstrip_chars(_, _)
rstrip_chars(s, chars) ==
    IF s # <<>> /\ s[Len(s)] \in chars THEN rstrip_chars(SubSeq(s, 1, Len(s) - 1), chars)
    ELSE s

\* p in s (substring) and s.startswith(p)
contains(s, p) ==
    \E i \in 0..(Len(s) - Len(p)) : SubSeq(s, i + 1, i + Len(p)) = p
startswith(s, p) == Len(s) >= Len(p) /\ SubSeq(s, 1, Len(p)) = p

\* str.split(): the maximal runs of characters that are not whitespace
RECURSIVE split(_)
split(s) ==
    LET t == lstrip(s)
        n == IF \E i \in DOMAIN t : t[i] \in Whitespace
             THEN (CHOOSE i \in DOMAIN t : t[i] \in Whitespace /\ \A j \in 1..(i - 1) : t[j] \notin Whitespace) - 1
             ELSE Len(t)
    IN  IF t = <<>> THEN <<>> ELSE <<SubSeq(t, 1, n)>> \o split(SubSeq(t, n + 1, Len(t)))

RECURSIVE NatToText(_)
NatToText(n) ==
    IF n < 10 THEN <<DigitChars[n + 1]>>
    ELSE NatToText(n \div 10) \o <<DigitChars[(n % 10) + 1]>>
IntToText(n) == IF n < 0 THEN <<"-">> \o NatToText(0 - n) ELSE NatToText(n)

(***************************************************************************)
(* Decoded JSON values, tagged with their Python type                      *)
(***************************************************************************)
JNull == [t |-> "null"]
JInt(n) == [t |-> "int", v |-> n]
JFloat(w, f) == [t |-> "float", w |-> w, f |-> f]
JBool(b) == [t |-> "bool", v |-> b]
JStr(s) == [t |-> "str", v |-> s]
\* a str the code only compares or tests for emptiness, held as a TLA+ string
JName(s) == [t |-> "str", v |-> s, name |-> TRUE]
JList(s) == [t |-> "list", v |-> s]
EmptyMap == [k \in {} |-> JNull]
\* A dict keeps the order of its keys (the order of the JSON object); JDict is
\* for dicts the code never iterates over and fixes some order.
RECURSIVE SetToSeq(_)
SetToSeq(S) ==
    IF S = {} THEN <<>> ELSE LET x == CHOOSE y \in S : TRUE IN <<x>> \o SetToSeq(S \ {x})
JODict(keys, f) == [t |-> "dict", v |-> f, order |-> keys]
JDict(f) == JODict(SetToSeq(DOMAIN f), f)

\* Python's str(x) of a scalar; a float w.f has one fractional digit
Str(x) ==
    CASE x.t = "str" -> x.v
      [] x.t = "int" -> IntToText(x.v)
      [] x.t = "float" -> IntToText(x.w) \o <<".">> \o NatToText(x.f)
      [] x.t = "bool" -> IF x.v THEN T_True ELSE T_False
      [] x.t = "null" -> T_None

isdict(x) == x.t = "dict"
\* bool(x) of None, a str or a number
Truthy(x) ==
    CASE x.t = "null" -> FALSE
      [] x.t = "str" -> IF "name" \in DOMAIN x THEN x.v # "" ELSE x.v # <<>>
      [] x.t = "int" -> x.v # 0
      [] x.t = "bool" -> x.v
\* d.get(key, default) of a dict d
Get(d, key, default) == IF key \in DOMAIN d.v THEN d.v[key] ELSE default

(***************************************************************************)
(* Results of a call: a returned value or a raised exception               *)
(***************************************************************************)
NoCode == JNull
Lit(s) == [lit |-> s]
Val(s) == [val |-> s]
Key(s) == [key |-> s]

Ok(v) == [status |-> "ok", value |-> v, err |-> "", message |-> <<>>,
          code |-> NoCode, method |-> ""]
\* ExchangerAPIError.__init__(message, error_code, method)
Raise(err, message, code, method) ==
    [status |-> "error", value |-> JNull, err |-> err, message |-> message,
     code |-> code, method |-> method]
\* an exception of Python itself escaping the client
Crash(err) == Raise(err, <<>>, NoCode, "")
NoOutcome == [status |-> "none", value |-> JNull, err |-> "", message |-> <<>>,
              code |-> NoCode, method |-> ""]

\* the exception classes and their base classes
BaseOf(err) ==
    CASE err \in {"DirectionNotFoundError", "BidNotFoundError",
                  "MethodNotSupportedError"} -> "APIResponseError"
      [] err \in {"NetworkError", "APIResponseError", "ValidationError",
                  "PaymentNotAvailableError", "CancelNotAvailableError"} ->
            "ExchangerAPIError"
      [] OTHER -> "Exception"
IsA(err, cls) == err = cls \/ BaseOf(err) = cls \/ BaseOf(BaseOf(err)) = cls

(***************************************************************************)
(* Transport: ExchangerAPI._request                                        *)
(***************************************************************************)
\* An HTTP exchange as the requests library reports it: net is "ok" or the
\* exception class requests.post raised; body.text is the class of
\* response.text ("empty", "blank", "invalid" or "json") and body.json the
\* decoded value of a "json" body.
\* ExchangerAPI.__init__: the attributes of a client instance
__init__(login, key, base_url, timeout, lang) ==
    [base_url |-> rstrip_chars(base_url, {"/"}) \o <<"/">>,
     timeout |-> timeout,
     headers |-> (IF Truthy(lang) THEN ("API-LANG" :> lang) ELSE EmptyMap)
                 @@ ("API-LOGIN" :> login) @@ ("API-KEY" :> key)]

\* lines 366-372 of _request: the POST that goes on the wire, and the
\* instance as the call leaves it
requests_post_remembering(self, method, params) ==
    LET marked == [self EXCEPT !.headers = ("API-METHOD" :> JName(method)) @@ @]
    IN  [self |-> marked,
         sent |-> [url |-> <<marked.base_url, method>>, headers |-> marked.headers,
                   data |-> params, timeout |-> marked.timeout]]
requests_post(self, method, params) ==
    [self |-> self,
     sent |-> [url |-> <<self.base_url, method>>, headers |-> self.headers,
               data |-> params, timeout |-> self.timeout]]

HttpResponse(net, status, text, json) ==
    [net |-> net, status |-> status, body |-> [text |-> text, json |-> json]]
HttpOk(json) == HttpResponse("ok", 200, "json", json)

\* response.raise_for_status(): HTTPError for 4xx and 5xx
raise_for_status_5xx_only(status) == status >= 500 /\ status < 600
raise_for_status(status) == status >= 400 /\ status < 600

\* lines 388-389: response.text.strip() is empty
EmptyBody(text) == text \in {"empty", "blank"}
\* lines 390 and 395-397: the exception for a body that cannot be decoded
ParseError_as_network(what, method) ==
    [status |-> "error", value |-> [t |-> "null"], err |-> "NetworkError",
     message |-> <<[lit |-> what]>>, code |-> [t |-> "null"], method |-> method]
ParseError(what, method) == Raise("APIResponseError", <<Lit(what)>>, NoCode, method)

\* lines 403-405: the envelope reports a business failure
BusinessFailure_no_str(data) ==
    isdict(data) /\ "error" \in DOMAIN data.v /\ data.v["error"] # JStr(T_0)
BusinessFailure(data) ==
    isdict(data) /\ "error" \in DOMAIN data.v /\ Str(data.v["error"]) # T_0

\* lines 410, 416, 421, 425, 430: the branch of the if/elif chain taken for
\* the lower-cased error text
ErrorBranch_bid_first(error_lower) ==
    IF contains(error_lower, P_no_bid_exists) THEN "no bid exists"
    ELSE IF contains(error_lower, P_direction_not_found) THEN "direction not found"
    ELSE IF contains(error_lower, P_method_not_supported) THEN "method not supported"
    ELSE IF contains(error_lower, P_api_disabled) THEN "api disabled"
    ELSE "else"
ErrorBranch(error_lower) ==
    IF contains(error_lower, P_direction_not_found) THEN "direction not found"
    ELSE IF contains(error_lower, P_method_not_supported) THEN "method not supported"
    ELSE IF contains(error_lower, P_no_bid_exists) THEN "no bid exists"
    ELSE IF contains(error_lower, P_api_disabled) THEN "api disabled"
    ELSE "else"

\* line 432: error_text or f"... (code={error_val})"
GenericMessage_always_placeholder(error_text, error_val) ==
    <<Lit("unknown error (code="), Val(error_val), Lit(")")>>
GenericMessage(error_text, error_val) ==
    IF error_text # T_empty THEN <<Val(error_text)>>
    ELSE <<Lit("unknown error (code="), Val(error_val), Lit(")")>>

\* lines 404-434: the exception raised for a business failure
ClassifyError(data, method) ==
    LET error_val == Str(data.v["error"])
        error_text == strip(Str(Get(data, "error_text", JStr(T_empty))))
        error_lower == lower(error_text)
        branch == ErrorBranch(error_lower)
    IN  CASE branch = "direction not found" ->
                Raise("DirectionNotFoundError",
                      <<Lit("direction not found or not allowed for the API")>>,
                      JStr(error_val), method)
          [] branch = "method not supported" ->
                Raise("MethodNotSupportedError",
                      <<Lit("method "), Key(method), Lit(" is not activated for this API key")>>,
                      JStr(error_val), method)
          [] branch = "no bid exists" ->
                Raise("BidNotFoundError", <<Lit("bid not found")>>, JStr(error_val), method)
          [] branch = "api disabled" ->
                Raise("APIResponseError", <<Lit("API disabled")>>, JStr(error_val), method)
          [] OTHER ->
                Raise("APIResponseError", GenericMessage(error_text, error_val),
                      JStr(error_val), method)

\* lines 436-439: the payload of a successful envelope
ExtractData_when_set(data) ==
    IF isdict(data) /\ "data" \in DOMAIN data.v /\ data.v["data"] # JNull
    THEN Ok(data.v["data"]) ELSE Ok(data)
ExtractData(data) ==
    IF isdict(data) /\ "data" \in DOMAIN data.v THEN Ok(data.v["data"]) ELSE Ok(data)

\* _request(method, params) once the upstream answered with resp: the payload
\* returned or the exception raised
_request(method, resp) ==
    IF resp.net = "Timeout"
    THEN Raise("NetworkError", <<Lit("timeout calling "), Key(method)>>, NoCode, method)
    ELSE IF resp.net = "ConnectionError"
    THEN Raise("NetworkError", <<Lit("connection error")>>, NoCode, method)
    ELSE IF resp.net = "ok" /\ raise_for_status(resp.status)
    THEN Raise("NetworkError", <<Lit("HTTP "), Val(IntToText(resp.status)), Lit(": "),
                                 Lit(resp.body.text)>>, NoCode, method)
    ELSE IF resp.net # "ok"
    THEN Raise("NetworkError", <<Lit("request error")>>, NoCode, method)
    ELSE IF EmptyBody(resp.body.text) THEN ParseError("empty response", method)
    ELSE IF resp.body.text = "invalid" THEN ParseError("invalid JSON", method)
    ELSE LET data == resp.body.json
         IN  IF BusinessFailure(data) THEN ClassifyError(data, method)
             ELSE ExtractData(data)

(***************************************************************************)
(* Data model: BidResult, CalcResult, DirectionInfo                        *)
(***************************************************************************)
\* BidResult as create_bid and get_bid_status build it from a payload; url, the
\* amounts and the currency codes are copied like status_title and are left out
BidResult_default_actions(data) ==
    [id |-> Str(Get(data, "id", JStr(T_empty))),
     hash |-> Get(data, "hash", JName("")),
     status |-> Str(Get(data, "status", JStr(T_empty))),
     status_title |-> Get(data, "status_title", JStr(T_empty)),
     api_actions |-> JDict(EmptyMap)]
BidResult(data) ==
    [id |-> Str(Get(data, "id", JStr(T_empty))),
     hash |-> Get(data, "hash", JName("")),
     status |-> Str(Get(data, "status", JStr(T_empty))),
     status_title |-> Get(data, "status_title", JStr(T_empty)),
     api_actions |-> Get(data, "api_actions", JDict(EmptyMap))]

\* BidResult.can_pay_via_api: api_actions.get("pay") == "api"
can_pay_via_api(bid) ==
    IF ~isdict(bid.api_actions) THEN Crash("AttributeError")
    ELSE Ok(JBool(Get(bid.api_actions, "pay", JNull) = JStr(T_api)))

\* BidResult.payment_url: the pay capability when it starts with "http"
payment_url(bid) ==
    IF ~isdict(bid.api_actions) THEN Crash("AttributeError")
    ELSE LET pay == Get(bid.api_actions, "pay", JStr(T_empty))
         IN  IF pay.t # "str" THEN Crash("AttributeError")
             ELSE IF startswith(pay.v, T_http) THEN Ok(pay) ELSE Ok(JNull)

\* BidResult.can_cancel_via_api: api_actions.get("cancel") == "api"
can_cancel_via_api(bid) ==
    IF ~isdict(bid.api_actions) THEN Crash("AttributeError")
    ELSE Ok(JBool(Get(bid.api_actions, "cancel", JNull) = JStr(T_api)))

\* BidResult.cancel_url
cancel_url(bid) ==
    IF ~isdict(bid.api_actions) THEN Crash("AttributeError")
    ELSE LET cancel == Get(bid.api_actions, "cancel", JStr(T_empty))
         IN  IF cancel.t # "str" THEN Crash("AttributeError")
             ELSE IF startswith(cancel.v, T_http) THEN Ok(cancel) ELSE Ok(JNull)

\* CalcResult as calculate builds it (lines 679-699): changed, and of the
\* attributes copied from the payload sum_give and min_give
CalcResult(data) ==
    [changed |-> Str(Get(data, "changed", JStr(T_0))) = T_1,
     sum_give |-> Get(data, "sum_give", JName("")),
     min_give |-> Get(data, "min_give", JName("no"))]

\* ExchangerAPI._normalize_fields
_normalize_fields_list_only(fields) == IF fields.t = "list" THEN fields ELSE JList(<<>>)
_normalize_fields(fields) ==
    IF fields.t = "dict"
    THEN \* list(fields.values()): the values in the order of the keys
         JList([i \in DOMAIN fields.order |-> fields.v[fields.order[i]]])
    ELSE IF fields.t = "list" THEN fields
    ELSE JList(<<>>)

\* ExchangerAPI._is_required: str(field.get("req", "0")) == "1"
_is_required(field) == Str(Get(field, "req", JStr(T_0))) = T_1

\* DirectionInfo as get_direction builds it (lines 607-628); the course, reserve
\* and currency attributes are copied like min_give and are left out
DirectionInfo(data) ==
    [id |-> Str(Get(data, "id", JStr(T_empty))),
     min_give |-> Get(data, "min_give", JName("no")),
     max_give |-> Get(data, "max_give", JName("no")),
     give_fields |-> _normalize_fields(Get(data, "give_fields", JList(<<>>))).v,
     get_fields |-> _normalize_fields(Get(data, "get_fields", JList(<<>>))).v,
     dir_fields |-> _normalize_fields(Get(data, "dir_fields", JList(<<>>))).v]

\* DirectionInfo.all_fields
all_fields(direction) ==
    direction.give_fields \o direction.get_fields \o direction.dir_fields

\* DirectionInfo.required_fields: str(f.get("req", "0")) == "1"
required_fields(direction) ==
    SelectSeq(all_fields(direction), LAMBDA f : Str(Get(f, "req", JStr(T_0))) = T_1)

\* DirectionInfo.optional_fields
optional_fields_req_zero(direction) ==
    SelectSeq(all_fields(direction), LAMBDA f : Str(Get(f, "req", JStr(T_0))) = T_0)
optional_fields(direction) ==
    SelectSeq(all_fields(direction), LAMBDA f : Str(Get(f, "req", JStr(T_0))) # T_1)

\* DirectionInfo.validate_fields: the names of the required fields that are
\* absent from user_fields or empty in it
RECURSIVE MissingOf(_, _)
MissingOf(fields, user_fields) ==
    IF fields = <<>> THEN <<>>
    ELSE LET name == Get(Head(fields), "name", JName("")).v
         IN  (IF name \notin DOMAIN user_fields \/ user_fields[name] = ""
              THEN <<name>> ELSE <<>>) \o MissingOf(Tail(fields), user_fields)
RECURSIVE FirstMissingOf(_, _)
FirstMissingOf(fields, user_fields) ==
    IF fields = <<>> THEN <<>>
    ELSE LET name == Get(Head(fields), "name", JName("")).v
         IN  IF name \notin DOMAIN user_fields \/ user_fields[name] = ""
             THEN <<name>> ELSE FirstMissingOf(Tail(fields), user_fields)
validate_fields_absent_only(direction, user_fields) ==
    LET req == required_fields(direction)
        names == [i \in DOMAIN req |-> Get(req[i], "name", JName("")).v]
    IN  SelectSeq(names, LAMBDA n : n \notin DOMAIN user_fields)
validate_fields_first_only(direction, user_fields) ==
    FirstMissingOf(required_fields(direction), user_fields)
validate_fields(direction, user_fields) ==
    MissingOf(required_fields(direction), user_fields)

(***************************************************************************)
(* Workflow operations.  X_begin is the part of operation X up to its      *)
(* request (or to the exception it raises before any); X_end is the part   *)
(* after _request returned r.                                              *)
(***************************************************************************)
NoReq == [method |-> "", params |-> EmptyMap]
Finish(out) == [done |-> TRUE, outcome |-> out, req |-> NoReq]
\* self._request(method, params) is called
Post(method, params) ==
    [done |-> FALSE, outcome |-> NoOutcome, req |-> [method |-> method, params |-> params]]

\* lines 661-662 and 743-744: action_map.get(action)
action_map_default_give(action) ==
    IF action.t = "str" /\ action.v \in {"get", "give_com", "get_com"}
    THEN JInt(CASE action.v = "get" -> 2 [] action.v = "give_com" -> 3 [] action.v = "get_com" -> 4)
    ELSE JInt(1)
action_map_swapped(action) ==
    IF action.t = "str" /\ action.v \in {"give", "get", "give_com", "get_com"}
    THEN JInt(CASE action.v = "give" -> 1 [] action.v = "get" -> 2
                [] action.v = "give_com" -> 4 [] action.v = "get_com" -> 3)
    ELSE JNull
action_map(action) ==
    IF action.t = "str" /\ action.v \in {"give", "get", "give_com", "get_com"}
    THEN JInt(CASE action.v = "give" -> 1 [] action.v = "get" -> 2
                [] action.v = "give_com" -> 3 [] action.v = "get_com" -> 4)
    ELSE JNull

InvalidAction(action) ==
    Raise("ValidationError", <<Lit("invalid action "), [arg |-> action]>>, NoCode, "")

\* ExchangerAPI.calculate
calculate_begin(direction_id, amount, action, cd) ==
    LET calc_action == action_map(action)
        params == [direction_id |-> JStr(Str(direction_id)), calc_amount |-> amount,
                   calc_action |-> calc_action]
    IN  IF calc_action = JNull THEN Finish(InvalidAction(action))
        ELSE Post("get_calc", IF cd # JNull THEN ("cd" :> cd) @@ params ELSE params)
calculate_end_validates(r) ==
    IF r.status = "error" THEN r
    ELSE IF ~isdict(r.value)
    THEN Raise("ValidationError", <<Lit("unexpected calculation")>>, NoCode, "")
    ELSE Ok(CalcResult(r.value))
calculate_end(r) ==
    IF r.status = "error" THEN r
    ELSE IF ~isdict(r.value) THEN Crash("AttributeError")
    ELSE Ok(CalcResult(r.value))

\* line 766 of create_bid: params.update(fields); fields maps field names to
\* values, and a name already in params takes the caller's value
MergeFields_keep_reserved(params, fields) ==
    params @@ [k \in DOMAIN fields |-> JName(fields[k])]
MergeFields(params, fields) ==
    [k \in DOMAIN fields |-> JName(fields[k])] @@ params

\* ExchangerAPI.create_bid
create_bid_begin(direction_id, amount, fields, action, api_id, partner_id, callback_url) ==
    LET calc_action == action_map(action)
        params == [direction_id |-> JStr(Str(direction_id)), calc_amount |-> amount,
                   calc_action |-> calc_action]
        with_api == IF Truthy(api_id) THEN ("api_id" :> api_id) @@ params ELSE params
        with_partner == IF partner_id # JNull THEN ("partner_id" :> partner_id) @@ with_api
                        ELSE with_api
        with_callback == IF Truthy(callback_url)
                         THEN ("callback_url" :> callback_url) @@ with_partner
                         ELSE with_partner
    IN  IF calc_action = JNull THEN Finish(InvalidAction(action))
        ELSE Post("create_bid", MergeFields(with_callback, fields))
create_bid_end(r) ==
    IF r.status = "error" THEN r
    ELSE IF ~isdict(r.value) THEN Crash("AttributeError")
    ELSE LET bid == BidResult(r.value)
             can_pay == can_pay_via_api(bid)
         IN  \* lines 793-801: the log lines read the capability properties
             IF can_pay.status = "error" THEN can_pay
             ELSE IF ~can_pay.value.v /\ payment_url(bid).status = "error"
             THEN payment_url(bid)
             ELSE IF can_cancel_via_api(bid).status = "error" THEN can_cancel_via_api(bid)
             ELSE Ok(bid)

\* ExchangerAPI.get_bid_status
get_bid_status_begin_hash_only(hash, bid_id) ==
    IF ~Truthy(hash) THEN Finish(Raise("ValidationError", <<Lit("hash or bid_id is needed")>>, NoCode, ""))
    ELSE Post("bid_info", [hash |-> hash])
get_bid_status_begin_prefer_hash(hash, bid_id) ==
    IF ~Truthy(hash) /\ ~Truthy(bid_id)
    THEN Finish(Raise("ValidationError", <<Lit("hash or bid_id is needed")>>, NoCode, ""))
    ELSE Post("bid_info", IF Truthy(hash) THEN ("hash" :> hash) ELSE ("id" :> bid_id))
get_bid_status_begin(hash, bid_id) ==
    IF ~Truthy(hash) /\ ~Truthy(bid_id)
    THEN Finish(Raise("ValidationError", <<Lit("hash or bid_id is needed")>>, NoCode, ""))
    ELSE Post("bid_info",
              (IF Truthy(hash) THEN ("hash" :> hash) ELSE EmptyMap)
              @@ (IF Truthy(bid_id) THEN ("id" :> bid_id) ELSE EmptyMap))
get_bid_status_end(r) ==
    IF r.status = "error" THEN r
    ELSE IF ~isdict(r.value) THEN Crash("AttributeError")
    ELSE Ok(BidResult(r.value))

\* ExchangerAPI.cancel_bid and ExchangerAPI.pay_bid
pay_bid_begin_guarded(hash) ==
    IF Truthy(hash) THEN Post("pay_bid", [hash |-> hash])
    ELSE Finish(Raise("PaymentNotAvailableError", <<Lit("no order to pay")>>, NoCode, ""))
cancel_bid_begin(hash) == Post("cancel_bid", [hash |-> hash])
pay_bid_begin(hash) == Post("pay_bid", [hash |-> hash])

\* ExchangerAPI.get_direction
get_direction_begin(direction_id) ==
    Post("get_direction", [direction_id |-> JStr(Str(direction_id))])
get_direction_end(r) ==
    IF r.status = "error" THEN r
    ELSE IF ~isdict(r.value) THEN Crash("AttributeError")
    ELSE Ok(DirectionInfo(r.value))

\* params or None: an empty dict is sent as no params at all
NoParams == [none |-> TRUE]
OrNone(params) == IF DOMAIN params = {} THEN NoParams ELSE params
\* `if x is not None: params[key] = x` and `if x: params[key] = x`
IfNotNone(key, x) == IF x # JNull THEN (key :> x) ELSE EmptyMap
IfTruthy(key, x) == IF Truthy(x) THEN (key :> x) ELSE EmptyMap
\* len(x) of a decoded value
Sized(x) == x.t \in {"list", "dict", "str"}

\* ExchangerAPI.test_connection
test_connection_begin == Post("test", NoParams)
test_connection_end(r) ==
    IF r.status = "error" THEN Finish(r)
    ELSE IF ~isdict(r.value) THEN Finish(Crash("AttributeError"))
    ELSE Finish(r)

\* ExchangerAPI.get_currencies
get_currencies_begin(currency_id_give, currency_id_get) ==
    Post("get_direction_currencies",
         OrNone(IfNotNone("currency_id_give", currency_id_give)
                @@ IfNotNone("currency_id_get", currency_id_get)))
get_currencies_end(r) ==
    IF r.status = "error" THEN Finish(r)
    ELSE IF ~isdict(r.value) THEN Finish(Crash("AttributeError"))
    ELSE IF ~Sized(Get(r.value, "give", JList(<<>>))) \/ ~Sized(Get(r.value, "get", JList(<<>>)))
    THEN Finish(Crash("TypeError"))
    ELSE Finish(r)

\* ExchangerAPI.get_directions
get_directions_begin(currency_id_give, currency_id_get) ==
    Post("get_directions",
         OrNone(IfNotNone("currency_id_give", currency_id_give)
                @@ IfNotNone("currency_id_get", currency_id_get)))
get_directions_end(r) ==
    IF r.status = "error" THEN r
    ELSE IF r.value.t # "list"
    THEN Raise("APIResponseError", <<Lit("unexpected format of the directions list")>>, NoCode, "")
    ELSE r

\* line 579 of find_direction: give_lower in give_title and all(kw in get_title ...)
Matches(give_title, get_title, give_lower, get_keywords) ==
    /\ contains(give_title, give_lower)
    /\ \A i \in DOMAIN get_keywords : contains(get_title, get_keywords[i])

\* lines 572-587 of find_direction: the loop over the directions
RECURSIVE FirstMatch(_, _, _)
FirstMatch_last(directions, give_lower, get_keywords) ==
    LET hits == SelectSeq(directions, LAMBDA d :
                    /\ isdict(d)
                    /\ Get(d, "currency_give_title", JStr(T_empty)).t = "str"
                    /\ Get(d, "currency_get_title", JStr(T_empty)).t = "str"
                    /\ Matches(lower(Get(d, "currency_give_title", JStr(T_empty)).v),
                               lower(Get(d, "currency_get_title", JStr(T_empty)).v),
                               give_lower, get_keywords))
    IN  IF hits = <<>> THEN Ok(JNull) ELSE Ok(hits[Len(hits)])
FirstMatch(directions, give_lower, get_keywords) ==
    IF directions = <<>> THEN Ok(JNull)
    ELSE LET d == Head(directions)
             give_title == Get(d, "currency_give_title", JStr(T_empty))
             get_title == Get(d, "currency_get_title", JStr(T_empty))
         IN  IF ~isdict(d) THEN FirstMatch(Tail(directions), give_lower, get_keywords)
             ELSE IF give_title.t # "str" \/ get_title.t # "str" THEN Crash("AttributeError")
             ELSE IF Matches(lower(give_title.v), lower(get_title.v), give_lower, get_keywords)
             THEN Ok(d)
             ELSE FirstMatch(Tail(directions), give_lower, get_keywords)

\* ExchangerAPI.find_direction
find_direction_begin == get_directions_begin(JNull, JNull)
find_direction_end(currency_give, currency_get, directions) ==
    IF directions.status = "error" THEN Finish(directions)
    ELSE Finish(FirstMatch(directions.value.v, lower(currency_give), split(lower(currency_get))))

\* ExchangerAPI.confirm_bid
confirm_bid_begin(hash) == Post("success_bid", [hash |-> hash])

\* ExchangerAPI.get_exchanges (ip, api_id and offset are handled like bid_id and
\* limit and are left out)
get_exchanges_begin(start_time, bid_id, status_history, limit) ==
    Post("get_exchanges",
         OrNone(IfNotNone("start_time", start_time) @@ IfTruthy("id", bid_id)
                @@ (IF status_history THEN ("status_history" :> JInt(1)) ELSE EmptyMap)
                @@ IfNotNone("limit", limit)))
get_exchanges_end(r) ==
    IF r.status = "error" THEN Finish(r)
    ELSE LET items == IF isdict(r.value) THEN Get(r.value, "items", JList(<<>>)) ELSE r.value
         IN  IF ~Sized(items) THEN Finish(Crash("TypeError")) ELSE Finish(Ok(items))

\* lines 863-865, 886-888 and 899-901: cancel_bid, pay_bid and confirm_bid
\* return what _request returned
return_result_retrying(r) ==
    IF r.status = "error" /\ r.err = "NetworkError" THEN Post(r.method, NoParams) ELSE Finish(r)
return_result(r) == Finish(r)

(***************************************************************************)
(* Compound operations                                                     *)
(***************************************************************************)
\* ExchangerAPI.safe_pay
safe_pay_begin(bid) ==
    LET can_pay == can_pay_via_api(bid)
        url == payment_url(bid)
    IN  IF can_pay.status = "error" THEN Finish(can_pay)
        ELSE IF can_pay.value.v THEN pay_bid_begin(bid.hash)
        ELSE IF url.status = "error" THEN Finish(url)
        ELSE IF url.value # JNull
        THEN Finish(Raise("PaymentNotAvailableError",
                          <<Lit("pay by the link: "), Val(url.value.v)>>, NoCode, ""))
        ELSE Finish(Raise("PaymentNotAvailableError",
                          <<Lit("api_actions.pay = "),
                            Val(Str(Get(bid.api_actions, "pay", JNull)))>>, NoCode, ""))

\* ExchangerAPI.safe_cancel
safe_cancel_begin(bid) ==
    LET can_cancel == can_cancel_via_api(bid)
        cancel_val == Get(bid.api_actions, "cancel", JStr(T_empty))
    IN  IF can_cancel.status = "error" THEN Finish(can_cancel)
        ELSE IF can_cancel.value.v THEN cancel_bid_begin(bid.hash)
        ELSE IF cancel_val.t # "str" THEN Finish(Crash("AttributeError"))
        ELSE IF startswith(cancel_val.v, T_http)
        THEN Finish(Raise("CancelNotAvailableError",
                          <<Lit("cancel by the link: "), Val(cancel_val.v)>>, NoCode, ""))
        ELSE Finish(Raise("CancelNotAvailableError",
                          <<Lit("api_actions.cancel = "), Val(cancel_val.v)>>, NoCode, ""))

\* lines 1046-1051 of full_exchange: the ValidationError for missing required
\* fields; building the list of all required fields fails with TypeError when
\* a required field has no name (None + str)
MissingFieldsError(direction, missing) ==
    LET req == required_fields(direction)
    IN  IF \E i \in DOMAIN req : Get(req[i], "name", JNull).t # "str"
                                    \/ Get(req[i], "label", JName("")).t # "str"
        THEN Crash("TypeError")
        ELSE Raise("ValidationError",
                   <<Lit("required fields not filled: ")>>
                   \o [i \in DOMAIN missing |-> Key(missing[i])]
                   \o <<Lit(". all required fields: ")>>
                   \o [i \in DOMAIN req |->
                         [field |-> req[i].v["name"].v, label |-> Get(req[i], "label", JName("")).v]],
                   NoCode, "")

\* ExchangerAPI.full_exchange, after calculate returned c
full_exchange_after_calc_unchecked(a, c) ==
    IF a.validate THEN get_direction_begin(a.direction_id)
    ELSE create_bid_begin(a.direction_id, a.amount, a.fields, a.action,
                          a.api_id, JNull, a.callback_url)
full_exchange_after_calc(a, c) ==
    IF c.status = "error" THEN Finish(c)
    ELSE IF a.validate THEN get_direction_begin(a.direction_id)
    ELSE create_bid_begin(a.direction_id, a.amount, a.fields, a.action,
                          a.api_id, JNull, a.callback_url)

\* ExchangerAPI.full_exchange, after get_direction returned d
full_exchange_after_direction(a, d) ==
    IF d.status = "error" THEN Finish(d)
    ELSE LET missing == validate_fields(d.value, a.fields)
         IN  IF missing # <<>> THEN Finish(MissingFieldsError(d.value, missing))
             ELSE create_bid_begin(a.direction_id, a.amount, a.fields, a.action,
                                   a.api_id, JNull, a.callback_url)

(***************************************************************************)
(* Inputs of the caller and responses of the upstream service              *)
(***************************************************************************)
\* the number of form fields a direction has
MaxFields == 3
NamePool == <<"account1", "account2", "cf6", "cfgive3">>
FieldNames == {NamePool[i] : i \in 1..MaxFields}

DirectionIds == {JInt(7)}
Amounts == {JInt(5000)}
Sides == {JName("give"), JName("get"), JName("give_com"), JName("get_com"),
          JName("sideways"), JName("GIVE"), JName(""), JNull}
\* the sides full_exchange is called with
ExchangeSides == {JName("get_com"), JName("sideways"), JNull}
Hashes == {JNull, JName(""), JName("h1")}
BidIds == {JNull, JName(""), JName("42")}
\* the caller's field values: any subset of the names, each empty or filled
UserFields == UNION {[S -> {"", "x"}] : S \in SUBSET FieldNames}
\* the arguments of create_bid besides direction, amount and side: the field
\* values alone, and field values together with api_id, partner_id and
\* callback_url, some of the field names being names of request parameters
NoExtras(fields) ==
    [fields |-> fields, api_id |-> JNull, partner_id |-> JNull, callback_url |-> JNull]
CreateArgs ==
    {NoExtras(f) : f \in UserFields}
    \cup {[fields |-> [calc_action |-> "x", api_id |-> "x"], api_id |-> JInt(3),
           partner_id |-> JInt(0), callback_url |-> JName("https://shop/cb")],
          [fields |-> [direction_id |-> "x", account1 |-> "x"], api_id |-> JInt(0),
           partner_id |-> JNull, callback_url |-> JName("")],
          [fields |-> [account1 |-> "x", callback_url |-> ""], api_id |-> JInt(3),
           partner_id |-> JInt(9), callback_url |-> JName("https://shop/cb")]}

\* values of a capability (api_actions.pay, api_actions.cancel)
Capabilities == {JStr(T_api), JStr(T_pay_url), JStr(T_cancel_url), JStr(T_disabled),
                 JStr(T_empty), JStr(T_API_upper), JNull, JInt(0), JBool(FALSE)}
ApiActions ==
    {JDict([pay |-> p, cancel |-> JStr(T_api)]) : p \in Capabilities}
    \cup {JDict([pay |-> JStr(T_api), cancel |-> c]) : c \in Capabilities}
    \cup {JDict([pay |-> JStr(T_pay_url), cancel |-> JStr(T_cancel_url)]),
          JDict([pay |-> JStr(T_disabled), cancel |-> JStr(T_disabled)]),
          JDict([pay |-> JStr(T_api)]), JDict([cancel |-> JStr(T_api)]),
          JDict(EmptyMap), JList(<<>>), JNull}
\* payloads of create_bid and bid_info
BidPayloads ==
    {JDict([id |-> JInt(42), hash |-> JName("h1"), status |-> JInt(1),
            status_title |-> JName("new"), api_actions |-> a]) : a \in ApiActions}
    \cup {JDict([id |-> JInt(42), hash |-> h, status |-> JInt(1),
                 api_actions |-> JDict([pay |-> JStr(T_api), cancel |-> JStr(T_api)])]) :
             h \in {JName(""), JNull}}
    \cup {JDict([id |-> JInt(42), status |-> JInt(1)]), JList(<<>>), JNull}
\* the orders a caller can hold: what get_bid_status returns for those payloads
BidInputs == {BidResult(p) : p \in {q \in BidPayloads : isdict(q)}}

CalcPayloads ==
    {JDict([sum_give |-> JName("5000"), changed |-> c]) :
        c \in {JInt(0), JInt(1), JStr(T_1), JBool(TRUE)}}
    \cup {JDict([sum_give |-> JName("5000")]), JList(<<>>)}

\* a form field of a direction; required says whether the upstream marks it
\* required, enc how it writes the req flag
FormField(n, required, enc) ==
    LET base == [name |-> JName(n), label |-> JName("L")]
        asint == enc = "int_dict" \/ (enc = "mixed" /\ n \in {"account1", "cf6"})
    IN  IF ~required /\ enc = "mixed" THEN JDict(base)
        ELSE JDict(("req" :> (IF asint THEN JInt(IF required THEN 1 ELSE 0)
                              ELSE JStr(IF required THEN T_1 ELSE T_0))) @@ base)
\* a group of fields as a keyed map or as a list
FieldGroup(names, R, enc, asdict) ==
    IF asdict
    THEN JODict(names, [n \in {names[i] : i \in DOMAIN names} |-> FormField(n, n \in R, enc)])
    ELSE JList([i \in DOMAIN names |-> FormField(names[i], names[i] \in R, enc)])
\* the get_direction payload whose required fields are R
DirectionPayload(R, enc) ==
    JDict([id |-> JInt(7),
           give_fields |-> FieldGroup(SubSeq(NamePool, 1, 1), R, enc, enc # "str_list"),
           get_fields |-> FieldGroup(SubSeq(NamePool, 2, 2), R, enc, enc = "int_dict"),
           dir_fields |-> FieldGroup(SubSeq(NamePool, 3, MaxFields), R, enc, enc # "str_list")])
DirectionPayloads ==
    {DirectionPayload(R, enc) : R \in SUBSET FieldNames, enc \in {"int_dict", "str_list", "mixed"}}
    \cup {JDict([id |-> JInt(7)]),
          \* req flags that are neither 0 nor 1
          JDict([id |-> JInt(7),
                 give_fields |-> JList(<<JDict([name |-> JName("account1"), req |-> JBool(TRUE)]),
                                         JDict([name |-> JName("account2"), req |-> JFloat(1, 0)])>>),
                 get_fields |-> JODict(<<"cf6">>, [cf6 |-> FormField("cf6", TRUE, "str_list")])]),
          JDict([id |-> JInt(7),
                 give_fields |-> JList(<<JDict([name |-> JName("account1"), req |-> JNull]),
                                         FormField("account2", TRUE, "int_dict"),
                                         JDict([name |-> JName("cf6"), req |-> JStr(T_1_padded)])>>)]),
          \* groups that are neither a keyed map nor a list
          JDict([id |-> JInt(7), give_fields |-> JNull, get_fields |-> JName("none"),
                 dir_fields |-> JInt(3)]),
          \* a required field without a name
          JDict([id |-> JInt(7),
                 give_fields |-> JList(<<JDict([req |-> JInt(1), label |-> JName("L")]),
                                         FormField("account2", TRUE, "int_dict")>>)]),
          JList(<<>>)}

\* an entry of the directions list
Direction(id, give_title, get_title) ==
    JDict([direction_id |-> JInt(id), currency_give_title |-> give_title,
           currency_get_title |-> get_title])
DirectionLists ==
    {JList(<<Direction(1, JStr(T_Rubles_RUB), JStr(T_USDT_ERC20_title)),
             Direction(2, JStr(T_Rubles_RUB), JStr(T_USDT_TRC20_title)),
             Direction(3, JStr(T_rubles_rub), JStr(T_tether_trc20))>>),
     JList(<<JName("x"), JDict([direction_id |-> JInt(4)]),
             Direction(5, JStr(T_Bitcoin_BTC), JStr(T_USDT_TRC20_title))>>),
     JList(<<Direction(6, JStr(T_Bitcoin_BTC), JNull),
             Direction(2, JStr(T_Rubles_RUB), JStr(T_USDT_TRC20_title))>>),
     JList(<<>>)}
\* the search texts find_direction is called with
GiveQueries == {Q_RUB, Q_rub, Q_BTC, T_empty}
GetQueries == {Q_USDT_TRC20, Q_trc20_usdt, Q_USDT_ERC20, Q_USDTTRC20, T_empty}
CurrencyIds == {JNull, JInt(0), JInt(3)}

Payloads(method) ==
    CASE method = "get_calc" -> CalcPayloads
      [] method = "get_direction" -> DirectionPayloads
      [] method \in {"create_bid", "bid_info"} -> BidPayloads
      [] method = "test" ->
            {JDict([user_id |-> JInt(1), ip |-> JName("10.0.0.1")]), JList(<<>>), JNull}
      [] method = "get_direction_currencies" ->
            {JDict([give |-> JList(<<JName("c1")>>), get |-> JList(<<>>)]), JDict(EmptyMap),
             JDict([give |-> JNull]), JList(<<>>)}
      [] method = "get_directions" -> DirectionLists \cup {JDict(EmptyMap), JNull}
      [] method = "get_exchanges" ->
            {JDict([items |-> JList(<<JName("b1")>>)]), JDict(EmptyMap),
             JList(<<JName("b1")>>), JDict([items |-> JNull]), JNull}
      [] OTHER -> {JName("ok"), JDict(EmptyMap), JList(<<>>), JNull}

\* values and texts of a failing envelope
ErrorValues == {JInt(1), JStr(T_1), JStr(T_00), JFloat(0, 0), JNull, JBool(FALSE),
                JStr(T_empty), JInt(-1)}
ErrorTexts == {JStr(E_direction_caps), JStr(E_method_padded), JStr(E_no_bid),
               JStr(E_api_disabled), JStr(E_bid_then_direction),
               JStr(E_disabled_then_method), JStr(E_disabled_then_bid),
               JStr(E_unknown), JStr(E_near_miss), JStr(E_blank), JStr(T_empty),
               JNull, JInt(5)}
FailureEnvelopes ==
    {JDict([error |-> JInt(1), error_text |-> x]) : x \in ErrorTexts}
    \cup {JDict([error |-> e]) : e \in ErrorValues}
    \cup {JDict([error |-> e, error_text |-> x, data |-> JDict(EmptyMap)]) :
            e \in {JStr(T_1), JFloat(0, 0)}, x \in {JStr(E_no_bid), JStr(E_unknown)}}
\* the payload of a plain successful answer
DefaultPayload(method) ==
    CASE method = "get_calc" -> JDict([sum_give |-> JName("5000"), changed |-> JInt(0)])
      [] method = "get_direction" -> DirectionPayload({}, "int_dict")
      [] method \in {"create_bid", "bid_info"} ->
            JDict([id |-> JInt(42), hash |-> JName("h1"), status |-> JInt(1),
                   status_title |-> JName("new"),
                   api_actions |-> JDict([pay |-> JStr(T_api), cancel |-> JStr(T_api)])])
      [] method = "test" -> JDict([user_id |-> JInt(1), ip |-> JName("10.0.0.1")])
      [] method = "get_direction_currencies" ->
            JDict([give |-> JList(<<JName("c1")>>), get |-> JList(<<>>)])
      [] method = "get_directions" -> JList(<<>>)
      [] method = "get_exchanges" -> JDict([items |-> JList(<<JName("b1")>>)])
      [] OTHER -> JName("ok")
\* successful envelopes: error as the number 0, as the text "0" or absent; a
\* body without data; a body that is no keyed map
SuccessEnvelopes(method) ==
    {JDict([error |-> JInt(0), data |-> p]) : p \in Payloads(method)}
    \cup {JDict([error |-> JStr(T_0), data |-> DefaultPayload(method)]),
          JDict([data |-> DefaultPayload(method)]),
          JDict([error |-> JInt(0), error_text |-> JStr(E_no_bid)]), JList(<<>>)}

\* what the upstream and the network can answer to a request
Responses(method) ==
    {HttpOk(e) : e \in FailureEnvelopes \cup SuccessEnvelopes(method)}
    \cup {HttpResponse(n, 0, "empty", JNull) :
            n \in {"Timeout", "ConnectionError", "RequestException"}}
    \cup {HttpResponse("ok", st, "json", JDict([error |-> JInt(0), data |-> DefaultPayload(method)])) :
            st \in {201, 300, 404, 500}}
    \cup {HttpResponse("ok", 500, "json", JDict([error |-> JInt(1), error_text |-> JStr(E_no_bid)])),
          HttpResponse("ok", 304, "empty", JNull),
          HttpResponse("ok", 404, "invalid", JNull),
          HttpResponse("ok", 200, "empty", JNull),
          HttpResponse("ok", 200, "blank", JNull),
          HttpResponse("ok", 200, "invalid", JNull)}

(***************************************************************************)
(* The client as a state machine: one operation at a time                  *)
(***************************************************************************)
VARIABLES
    pc,       \* "idle", "wait" (a request is in flight) or "done"
    op,       \* the operation in progress and its arguments
    calls,    \* the requests the operation has sent so far
    last,     \* the response to the latest of them (none while it is in flight)
    locals,   \* full_exchange's local variables calc and direction
    outcome,  \* what the operation returned or raised
    held,     \* the order snapshot the caller kept from an earlier call
    config,   \* the attributes of the client instance: base_url, timeout, headers
    threads,  \* the calls of concurrent callers on the one instance
    _directions_cache,  \* the direction list the service keeps, and when it was fetched
    clock,    \* time.time()
    cached,   \* the call of get_directions_cached in progress
    exchange, \* the stored row of the order: its status and whether it has a user
    polls,    \* the status-poll requests in progress
    sent,     \* the notifications sent to the user's chat
    changes   \* how many times the stored status of the order changed

single == <<pc, op, calls, last, locals, outcome, held>>
service == <<_directions_cache, clock, cached>>
route == <<exchange, polls, sent, changes>>
vars == <<single, config, threads, service, route>>
\* what the operations of a single caller leave alone
elsewhere == <<threads, service, route>>

NoOp == [name |-> ""]
NoResponse == HttpResponse("none", 0, "empty", JNull)
NoLocals == [calc |-> JNull, direction |-> JNull]
NoBid == JNull

\* the callers that share the instance, and a caller that is not in a call
Threads == {"t1", "t2"}
Resting == [pc |-> "idle", op |-> NoOp, sent |-> <<>>, resp |-> NoResponse,
            outcome |-> NoOutcome]

\* the time at which the service starts, and how many times the clock is
\* looked at moving on
BootTime == 1000
MaxTicks == 4
\* get_directions_cached is not being called
NoCachedCall ==
    [pc |-> "idle", now |-> 0, before |-> [data |-> JNull, timestamp |-> 0],
     calls |-> <<>>, resp |-> NoResponse, outcome |-> NoOutcome]

\* the status-poll requests that can be in progress together, and how many
\* polls each of them makes
Requests == {"r1", "r2"}
MaxPolls == 2
NoRow == [found |-> FALSE, status |-> JNull, user |-> FALSE]
NoPoll == [pc |-> "idle", polled |-> 0, status_data |-> JNull, row |-> NoRow,
           http |-> 0]

\* nothing is going on
Quiet ==
    /\ pc = "idle"
    /\ op = NoOp
    /\ calls = <<>>
    /\ last = NoResponse
    /\ locals = NoLocals
    /\ outcome = NoOutcome
    /\ held = NoBid
    /\ threads = [t \in Threads |-> Resting]
    /\ _directions_cache = [data |-> JNull, timestamp |-> 0]
    /\ clock = BootTime
    /\ cached = NoCachedCall
    /\ polls = [r \in Requests |-> NoPoll]
    /\ sent = <<>>
    /\ changes = 0

\* the instance get_api builds
Init ==
    /\ Quiet
    /\ exchange = NoRow
    /\ config = __init__("login", "key", T_base_url \o <<"/">>, 30, JNull)

\* the request in flight
pending == calls[Len(calls)]

\* an operation is called and runs up to its first request
Start(o, step) ==
    /\ op' = o
    /\ UNCHANGED <<last, locals, held, config, elsewhere>>
    /\ IF step.done
       THEN pc' = "done" /\ calls' = <<>> /\ outcome' = step.outcome
       ELSE pc' = "wait" /\ calls' = <<step.req>> /\ outcome' = NoOutcome

\* the operation goes on after the response resp: it ends or sends its next
\* request
Continue(resp, step) ==
    /\ op' = op
    /\ UNCHANGED <<held, config, elsewhere>>
    /\ IF step.done
       THEN pc' = "done" /\ calls' = calls /\ outcome' = step.outcome /\ last' = resp
       ELSE /\ pc' = "wait" /\ calls' = Append(calls, step.req) /\ outcome' = NoOutcome
            /\ last' = NoResponse

Awaiting(names, method) ==
    pc = "wait" /\ op.name \in names /\ pending.method = method

calculate ==
    /\ pc = "idle"
    /\ \E d \in DirectionIds, amount \in Amounts, action \in Sides :
           Start([name |-> "calculate", action |-> action],
                 calculate_begin(d, amount, action, JNull))
calculate_response ==
    /\ Awaiting({"calculate"}, "get_calc")
    /\ UNCHANGED locals
    /\ \E resp \in Responses("get_calc") :
          Continue(resp, Finish(calculate_end(_request("get_calc", resp))))

create_bid ==
    /\ pc = "idle"
    /\ \E d \in DirectionIds, amount \in Amounts, a \in CreateArgs, action \in Sides :
           Start([name |-> "create_bid", direction_id |-> d, amount |-> amount,
                  action |-> action, fields |-> a.fields, api_id |-> a.api_id,
                  partner_id |-> a.partner_id, callback_url |-> a.callback_url],
                 create_bid_begin(d, amount, a.fields, action, a.api_id, a.partner_id,
                                  a.callback_url))
create_bid_response ==
    /\ Awaiting({"create_bid", "full_exchange"}, "create_bid")
    /\ UNCHANGED locals
    /\ \E resp \in Responses("create_bid") :
          Continue(resp, Finish(create_bid_end(_request("create_bid", resp))))

get_bid_status ==
    /\ pc = "idle"
    /\ \E hash \in Hashes, bid_id \in BidIds :
           Start([name |-> "get_bid_status", hash |-> hash, bid_id |-> bid_id],
                 get_bid_status_begin(hash, bid_id))
get_bid_status_response ==
    /\ Awaiting({"get_bid_status"}, "bid_info")
    /\ UNCHANGED locals
    /\ \E resp \in Responses("bid_info") :
          Continue(resp, Finish(get_bid_status_end(_request("bid_info", resp))))

get_direction ==
    /\ pc = "idle"
    /\ \E d \in DirectionIds :
           Start([name |-> "get_direction", direction_id |-> d], get_direction_begin(d))
get_direction_response ==
    /\ Awaiting({"get_direction"}, "get_direction")
    /\ UNCHANGED locals
    /\ \E resp \in Responses("get_direction") :
          Continue(resp, Finish(get_direction_end(_request("get_direction", resp))))

pay_bid ==
    /\ pc = "idle"
    /\ \E hash \in Hashes : Start([name |-> "pay_bid", hash |-> hash], pay_bid_begin(hash))
safe_pay ==
    /\ pc = "idle"
    /\ \E bid \in BidInputs : Start([name |-> "safe_pay", bid |-> bid], safe_pay_begin(bid))
pay_bid_response ==
    /\ Awaiting({"pay_bid", "safe_pay"}, "pay_bid")
    /\ UNCHANGED locals
    /\ \E resp \in Responses("pay_bid") :
          Continue(resp, return_result(_request("pay_bid", resp)))

cancel_bid ==
    /\ pc = "idle"
    /\ \E hash \in Hashes :
           Start([name |-> "cancel_bid", hash |-> hash], cancel_bid_begin(hash))
safe_cancel ==
    /\ pc = "idle"
    /\ \E bid \in BidInputs :
           Start([name |-> "safe_cancel", bid |-> bid], safe_cancel_begin(bid))
cancel_bid_response ==
    /\ Awaiting({"cancel_bid", "safe_cancel"}, "cancel_bid")
    /\ UNCHANGED locals
    /\ \E resp \in Responses("cancel_bid") :
          Continue(resp, return_result(_request("cancel_bid", resp)))

confirm_bid ==
    /\ pc = "idle"
    /\ \E hash \in Hashes :
           Start([name |-> "confirm_bid", hash |-> hash], confirm_bid_begin(hash))
confirm_bid_response ==
    /\ Awaiting({"confirm_bid"}, "success_bid")
    /\ UNCHANGED locals
    /\ \E resp \in Responses("success_bid") :
          Continue(resp, return_result(_request("success_bid", resp)))

test_connection ==
    /\ pc = "idle"
    /\ Start([name |-> "test_connection"], test_connection_begin)
test_connection_response ==
    /\ Awaiting({"test_connection"}, "test")
    /\ UNCHANGED locals
    /\ \E resp \in Responses("test") :
          Continue(resp, test_connection_end(_request("test", resp)))

get_currencies ==
    /\ pc = "idle"
    /\ \E give \in CurrencyIds, get \in CurrencyIds :
           Start([name |-> "get_currencies", currency_id_give |-> give,
                  currency_id_get |-> get], get_currencies_begin(give, get))
get_currencies_response ==
    /\ Awaiting({"get_currencies"}, "get_direction_currencies")
    /\ UNCHANGED locals
    /\ \E resp \in Responses("get_direction_currencies") :
          Continue(resp, get_currencies_end(_request("get_direction_currencies", resp)))

get_directions ==
    /\ pc = "idle"
    /\ \E give \in CurrencyIds, get \in CurrencyIds :
           Start([name |-> "get_directions", currency_id_give |-> give,
                  currency_id_get |-> get], get_directions_begin(give, get))
get_directions_response ==
    /\ Awaiting({"get_directions"}, "get_directions")
    /\ UNCHANGED locals
    /\ \E resp \in Responses("get_directions") :
          Continue(resp, Finish(get_directions_end(_request("get_directions", resp))))

find_direction ==
    /\ pc = "idle"
    /\ \E give \in GiveQueries, get \in GetQueries :
           Start([name |-> "find_direction", currency_give |-> give, currency_get |-> get],
                 find_direction_begin)
find_direction_response ==
    /\ Awaiting({"find_direction"}, "get_directions")
    /\ UNCHANGED locals
    /\ \E resp \in Responses("get_directions") :
          Continue(resp, find_direction_end(op.currency_give, op.currency_get,
                             get_directions_end(_request("get_directions", resp))))

get_exchanges ==
    /\ pc = "idle"
    /\ \E start_time \in {JNull, JInt(0)}, bid_id \in BidIds, status_history \in BOOLEAN,
          limit \in {JNull, JInt(0)} :
           Start([name |-> "get_exchanges", start_time |-> start_time, bid_id |-> bid_id,
                  status_history |-> status_history, limit |-> limit],
                 get_exchanges_begin(start_time, bid_id, status_history, limit))
get_exchanges_response ==
    /\ Awaiting({"get_exchanges"}, "get_exchanges")
    /\ UNCHANGED locals
    /\ \E resp \in Responses("get_exchanges") :
          Continue(resp, get_exchanges_end(_request("get_exchanges", resp)))

\* full_exchange: calculate, then get_direction and the validation when
\* validate is set, then create_bid (whose response create_bid_response takes)
full_exchange ==
    /\ pc = "idle"
    /\ \E d \in DirectionIds, amount \in Amounts, fields \in UserFields,
          action \in ExchangeSides, validate \in BOOLEAN :
           Start([name |-> "full_exchange", direction_id |-> d, amount |-> amount,
                  fields |-> fields, action |-> action, api_id |-> JNull,
                  callback_url |-> JNull, validate |-> validate],
                 calculate_begin(d, amount, action, JNull))
full_exchange_calc_response ==
    /\ Awaiting({"full_exchange"}, "get_calc")
    /\ \E resp \in Responses("get_calc") :
          LET calc == calculate_end(_request("get_calc", resp))
          IN  /\ locals' = [locals EXCEPT !.calc = calc.value]
              /\ Continue(resp, full_exchange_after_calc(op, calc))
full_exchange_direction_response ==
    /\ Awaiting({"full_exchange"}, "get_direction")
    /\ \E resp \in Responses("get_direction") :
          LET direction == get_direction_end(_request("get_direction", resp))
          IN  /\ locals' = [locals EXCEPT !.direction = direction.value]
              /\ Continue(resp, full_exchange_after_direction(op, direction))

\* the caller takes the result; the client keeps nothing
Return ==
    /\ pc = "done"
    /\ pc' = "idle" /\ op' = NoOp /\ calls' = <<>> /\ outcome' = NoOutcome
    /\ last' = NoResponse /\ locals' = NoLocals
    /\ UNCHANGED <<held, config, elsewhere>>

\* the caller keeps the order snapshot create_bid or get_bid_status returned
Keep ==
    /\ pc = "done"
    /\ op.name \in {"create_bid", "get_bid_status"}
    /\ outcome.status = "ok"
    /\ held' = outcome.value
    /\ pc' = "idle" /\ op' = NoOp /\ calls' = <<>> /\ outcome' = NoOutcome
    /\ last' = NoResponse /\ locals' = NoLocals
    /\ UNCHANGED <<config, elsewhere>>

\* safe_pay and safe_cancel on the snapshot the caller holds
safe_pay_held ==
    /\ pc = "idle"
    /\ held # NoBid
    /\ Start([name |-> "safe_pay", bid |-> held], safe_pay_begin(held))
safe_cancel_held ==
    /\ pc = "idle"
    /\ held # NoBid
    /\ Start([name |-> "safe_cancel", bid |-> held], safe_cancel_begin(held))

Next ==
    \/ calculate \/ calculate_response
    \/ create_bid \/ create_bid_response
    \/ get_bid_status \/ get_bid_status_response
    \/ get_direction \/ get_direction_response
    \/ pay_bid \/ safe_pay \/ pay_bid_response
    \/ cancel_bid \/ safe_cancel \/ cancel_bid_response
    \/ confirm_bid \/ confirm_bid_response
    \/ test_connection \/ test_connection_response
    \/ get_currencies \/ get_currencies_response
    \/ get_directions \/ get_directions_response
    \/ find_direction \/ find_direction_response
    \/ get_exchanges \/ get_exchanges_response
    \/ full_exchange \/ full_exchange_calc_response \/ full_exchange_direction_response
    \/ Return

Spec == Init /\ [][Next]_vars

\* The life of an order: the caller creates orders, keeps a snapshot, and
\* fetches the status, pays, cancels or confirms.
OrderNext ==
    \/ create_bid \/ create_bid_response
    \/ get_bid_status \/ get_bid_status_response
    \/ pay_bid \/ safe_pay_held \/ pay_bid_response
    \/ cancel_bid \/ safe_cancel_held \/ cancel_bid_response
    \/ confirm_bid \/ confirm_bid_response
    \/ Keep \/ Return

OrderSpec == Init /\ [][OrderNext]_vars

(***************************************************************************)
(* Concurrent callers on one instance.  Each caller runs one operation at  *)
(* a time; the requests of different callers are in flight together and    *)
(* are answered in any order.                                              *)
(***************************************************************************)
\* the instances the callers may share
Instances ==
    {__init__("login", "key", url, timeout, lang) :
        url \in {T_base_url, T_base_url \o <<"/">>, T_base_url \o <<"/", "/">>},
        timeout \in {30}, lang \in {JNull, JName(""), JName("ru_RU")}}

\* the calls a caller makes: the operation with its arguments and its part up
\* to the request
ThreadCalls ==
    {[op |-> [name |-> "calculate", action |-> a],
      step |-> calculate_begin(JInt(7), JInt(5000), a, JNull)] :
        a \in {JName("give"), JName("get_com"), JName("sideways")}}
    \cup {[op |-> [name |-> "get_bid_status", hash |-> h, bid_id |-> b],
           step |-> get_bid_status_begin(h, b)] :
             h \in {JNull, JName("h1")}, b \in {JNull, JName("42")}}
    \cup {[op |-> [name |-> "pay_bid", hash |-> JName("h1")],
           step |-> pay_bid_begin(JName("h1"))]}

\* what the upstream answers to a caller's request
ThreadResponses(method) ==
    {HttpOk(JDict([error |-> JInt(0), data |-> DefaultPayload(method)])),
     HttpOk(JDict([error |-> JInt(1), error_text |-> JStr(E_no_bid)])),
     HttpResponse("Timeout", 0, "empty", JNull),
     HttpResponse("ok", 500, "empty", JNull)}

\* the operation's part after _request returned r
ThreadEnd(name, r) ==
    CASE name = "calculate" -> calculate_end(r)
      [] name = "get_bid_status" -> get_bid_status_end(r)
      [] name = "pay_bid" -> r

\* a caller calls an operation, which runs up to its request
concurrent_call ==
    \E t \in Threads, c \in ThreadCalls :
        /\ threads[t].pc = "idle"
        /\ IF c.step.done
           THEN /\ threads' = [threads EXCEPT ![t] =
                                   [pc |-> "done", op |-> c.op, sent |-> <<>>,
                                    resp |-> NoResponse, outcome |-> c.step.outcome]]
                /\ config' = config
           ELSE LET post == requests_post(config, c.step.req.method, c.step.req.params)
                IN  /\ threads' = [threads EXCEPT ![t] =
                                       [pc |-> "wait", op |-> c.op, sent |-> <<post.sent>>,
                                        resp |-> NoResponse, outcome |-> NoOutcome]]
                    /\ config' = post.self
        /\ UNCHANGED <<single, service, route>>

\* the response to a caller's request arrives and its operation ends
concurrent_response ==
    \E t \in Threads :
        /\ threads[t].pc = "wait"
        /\ \E resp \in ThreadResponses(threads[t].sent[1].url[2]) :
              threads' = [threads EXCEPT ![t].pc = "done", ![t].resp = resp,
                             ![t].outcome =
                                 ThreadEnd(threads[t].op.name,
                                           _request(threads[t].sent[1].url[2], resp))]
        /\ UNCHANGED <<single, config, service, route>>

\* the caller takes the result
concurrent_return ==
    \E t \in Threads :
        /\ threads[t].pc = "done"
        /\ threads' = [threads EXCEPT ![t] = Resting]
        /\ UNCHANGED <<single, config, service, route>>

ConcurrentInit == Quiet /\ exchange = NoRow /\ config \in Instances
ConcurrentNext == concurrent_call \/ concurrent_response \/ concurrent_return
ConcurrentSpec == ConcurrentInit /\ [][ConcurrentNext]_vars

(***************************************************************************)
(* The calling layer's direction-list cache                                *)
(* (backend/app/services/exchanger.py, backend/app/api/routes.py)          *)
(***************************************************************************)
CACHE_TTL == 300

\* line 33 of get_directions_cached: the stored list is served
Fresh_nonempty(cache, now) ==
    cache.data \notin {JNull, JList(<<>>)} /\ (now - cache.timestamp) < CACHE_TTL
Fresh(cache, now) ==
    cache.data # JNull /\ (now - cache.timestamp) < CACHE_TTL

\* lines 39-42 of get_directions_cached: api.get_directions() returned or
\* raised directions; the cache afterwards and what the function returns or
\* raises
StoreDirections_stale_fallback(cache, now, directions) ==
    IF directions.status = "error"
    THEN [cache |-> cache,
          outcome |-> IF cache.data # JNull THEN Ok(cache.data) ELSE directions]
    ELSE [cache |-> [data |-> directions.value, timestamp |-> now], outcome |-> directions]
StoreDirections(cache, now, directions) ==
    IF directions.status = "error" THEN [cache |-> cache, outcome |-> directions]
    ELSE [cache |-> [data |-> directions.value, timestamp |-> now], outcome |-> directions]

\* the route GET /exchange/directions: the list, or HTTP 500 for any exception
get_directions_route(r) ==
    IF r.status = "error" THEN [status |-> 500, body |-> JNull]
    ELSE [status |-> 200, body |-> r.value]

\* get_directions_cached is called: it reads the time and serves the stored
\* list or asks the upstream
get_directions_cached ==
    /\ cached.pc = "idle"
    /\ LET now == clock
           step == get_directions_begin(JNull, JNull)
       IN  cached' =
             IF Fresh(_directions_cache, now)
             THEN [pc |-> "done", now |-> now, before |-> _directions_cache,
                   calls |-> <<>>, resp |-> NoResponse,
                   outcome |-> Ok(_directions_cache.data)]
             ELSE [pc |-> "fetch", now |-> now, before |-> _directions_cache,
                   calls |-> <<step.req>>, resp |-> NoResponse, outcome |-> NoOutcome]
    /\ UNCHANGED <<_directions_cache, clock, single, config, threads, route>>

\* the upstream answers the fetch
get_directions_cached_response ==
    /\ cached.pc = "fetch"
    /\ \E resp \in Responses("get_directions") :
          LET directions == get_directions_end(_request("get_directions", resp))
              end == StoreDirections(_directions_cache, cached.now, directions)
          IN  /\ _directions_cache' = end.cache
              /\ cached' = [cached EXCEPT !.pc = "done", !.resp = resp,
                                           !.outcome = end.outcome]
    /\ UNCHANGED <<clock, single, config, threads, route>>

\* the route answers and the call is over
get_directions_cached_return ==
    /\ cached.pc = "done"
    /\ cached' = NoCachedCall
    /\ UNCHANGED <<_directions_cache, clock, single, config, threads, route>>

\* time passes, also while a fetch is under way
Elapsed == {CACHE_TTL \div 2, CACHE_TTL \div 2 - 1}
tick ==
    /\ \E d \in Elapsed : clock + d <= BootTime + MaxTicks * (CACHE_TTL \div 2)
                          /\ clock' = clock + d
    /\ UNCHANGED <<_directions_cache, cached, single, config, threads, route>>

CacheNext ==
    \/ get_directions_cached \/ get_directions_cached_response
    \/ get_directions_cached_return \/ tick
CacheSpec == Init /\ [][CacheNext]_vars

(***************************************************************************)
(* The status-poll route GET /exchange/{hash}/status                       *)
(* (backend/app/api/routes.py).  Every request has a database session of   *)
(* its own; the route gives up control at each await, so the requests for  *)
(* one order interleave there.                                             *)
(***************************************************************************)
\* status titles of the upstream; the Cyrillic letters are written by name
T_new == <<"n", "e", "w">>
T_Paid == <<"P", "a", "i", "d">>
T_Cancelled == <<"C", "a", "n", "c", "e", "l", "l", "e", "d">>
T_oplachena == <<"cyr_o", "cyr_p", "cyr_l", "cyr_a", "cyr_ch", "cyr_e", "cyr_n", "cyr_a">>
Titles == {JStr(T_new), JStr(T_Paid), JStr(T_Cancelled), JStr(T_oplachena), JNull}

\* lines 204 and 206 of get_exchange_status: the keywords of a paid and of a
\* failed order
PaidKeywords ==
    {<<"cyr_o", "cyr_p", "cyr_l", "cyr_a", "cyr_ch">>,
     <<"cyr_v", "cyr_y", "cyr_p", "cyr_o", "cyr_l", "cyr_n">>,
     <<"p", "a", "i", "d">>, <<"d", "o", "n", "e">>,
     <<"c", "o", "m", "p", "l", "e", "t">>}
ErrorKeywords ==
    {<<"cyr_o", "cyr_sh", "cyr_i", "cyr_b", "cyr_k">>,
     <<"cyr_o", "cyr_t", "cyr_m", "cyr_e", "cyr_n">>,
     <<"e", "r", "r", "o", "r">>, <<"c", "a", "n", "c", "e", "l">>,
     <<"r", "e", "j", "e", "c", "t">>}

\* lines 202-209: which notification a new status asks for; a status that is
\* no text makes .lower() fail, which the handler only logs
Notification(new_status) ==
    IF new_status.t # "str" THEN "none"
    ELSE IF \E kw \in PaidKeywords : contains(lower(new_status.v), kw) THEN "paid"
    ELSE IF \E kw \in ErrorKeywords : contains(lower(new_status.v), kw) THEN "error"
    ELSE "none"

\* services/exchanger.py get_bid_status: the dict made of the order snapshot;
\* reading the capability properties can fail
service_get_bid_status(r) ==
    IF r.status = "error" THEN r
    ELSE LET bid == r.value
         IN  IF can_pay_via_api(bid).status = "error" THEN can_pay_via_api(bid)
             ELSE IF can_cancel_via_api(bid).status = "error" THEN can_cancel_via_api(bid)
             ELSE IF payment_url(bid).status = "error" THEN payment_url(bid)
             ELSE Ok([id |-> bid.id, hash |-> bid.hash, status_title |-> bid.status_title])

\* what the upstream answers to the bid_info request of a poll
PollResponses ==
    {HttpOk(JDict([error |-> JInt(0),
                   data |-> JDict([id |-> JInt(42), hash |-> JName("h1"),
                                   status |-> JInt(1), status_title |-> title,
                                   api_actions |-> JDict([pay |-> JStr(T_api),
                                                          cancel |-> JStr(T_api)])])])) :
        title \in Titles}
    \cup {HttpOk(JDict([error |-> JInt(0),
                         data |-> JDict([id |-> JInt(42), hash |-> JName("h1"),
                                         status_title |-> JStr(T_Paid),
                                         api_actions |-> JNull])])),
           HttpOk(JDict([error |-> JInt(1), error_text |-> JStr(E_no_bid)])),
           HttpResponse("Timeout", 0, "empty", JNull)}

others == <<single, config, threads, service>>

\* line 183: the route fetches the status of the order (a blocking call); an
\* exception ends the request with HTTP 500
poll_fetch ==
    \E r \in Requests, resp \in PollResponses :
        LET status_data ==
                service_get_bid_status(get_bid_status_end(_request("bid_info", resp)))
        IN  /\ polls[r].pc = "idle"
            /\ polls[r].polled < MaxPolls
            /\ polls' = [polls EXCEPT ![r] =
                  IF status_data.status = "error"
                  THEN [pc |-> "done", polled |-> @.polled + 1, status_data |-> JNull,
                        row |-> NoRow, http |-> 500]
                  ELSE [pc |-> "select", polled |-> @.polled + 1,
                        status_data |-> status_data.value, row |-> NoRow, http |-> 0]]
            /\ UNCHANGED <<exchange, sent, changes, others>>

\* lines 185-190: the session of the request reads the row of the order
poll_select ==
    \E r \in Requests :
        /\ polls[r].pc = "select"
        /\ polls' = [polls EXCEPT ![r].pc = "compare", ![r].row = exchange]
        /\ UNCHANGED <<exchange, sent, changes, others>>

\* lines 191-196: a status that differs from the one read is stored and
\* committed; otherwise the request is answered
poll_update ==
    \E r \in Requests :
        LET row == polls[r].row
            new_status == polls[r].status_data.status_title
        IN  /\ polls[r].pc = "compare"
            /\ IF row.found /\ row.status # new_status
               THEN /\ exchange' = [exchange EXCEPT !.status = new_status]
                    /\ changes' = IF exchange.status # new_status THEN changes + 1
                                  ELSE changes
                    /\ polls' = [polls EXCEPT ![r].pc = "notify"]
               ELSE /\ polls' = [polls EXCEPT ![r].pc = "done", ![r].http = 200]
                    /\ UNCHANGED <<exchange, changes>>
            /\ UNCHANGED <<sent, others>>

\* lines 200-211: the user of the order is notified of a paid or failed
\* order, and the request is answered
poll_notify ==
    \E r \in Requests :
        LET row == polls[r].row
            new_status == polls[r].status_data.status_title
            kind == Notification(new_status)
        IN  /\ polls[r].pc = "notify"
            /\ sent' = IF row.user /\ kind # "none"
                       THEN Append(sent, [kind |-> kind, old |-> row.status,
                                          new |-> new_status])
                       ELSE sent
            /\ polls' = [polls EXCEPT ![r].pc = "done", ![r].http = 200]
            /\ UNCHANGED <<exchange, changes, others>>

\* the response is out and the request is over
poll_return ==
    \E r \in Requests :
        /\ polls[r].pc = "done"
        /\ polls' = [polls EXCEPT ![r] = [NoPoll EXCEPT !.polled = polls[r].polled]]
        /\ UNCHANGED <<exchange, sent, changes, others>>

\* the order as /exchange/create stored it: with the status title of the new
\* order and its user
PollInit ==
    /\ Quiet
    /\ config = __init__("login", "key", T_base_url \o <<"/">>, 30, JNull)
    /\ exchange \in {[found |-> TRUE, status |-> JStr(T_new), user |-> TRUE],
                      [found |-> TRUE, status |-> JStr(T_new), user |-> FALSE],
                      NoRow}
PollNext == poll_fetch \/ poll_select \/ poll_update \/ poll_notify \/ poll_return
PollSpec == PollInit /\ [][PollNext]_vars

(***************************************************************************)
(* Properties                                                              *)
(***************************************************************************)
CallMethods == [i \in DOMAIN calls |-> calls[i].method]
Raised(err) == pc = "done" /\ outcome.status = "error" /\ outcome.err = err

\* a message embeds a text that is an http link
CarriesUrl(message) ==
    \E i \in DOMAIN message :
        "val" \in DOMAIN message[i] /\ startswith(message[i].val, T_http)

\* C1: safe_pay sends pay_bid (one request, with bid.hash) only when the pay
\* capability is the text "api"; for every other value of it, or none, it
\* raises PaymentNotAvailableError and sends nothing.
C1_SafePayGuard ==
    (op.name = "safe_pay" /\ isdict(op.bid.api_actions)) =>
        IF Get(op.bid.api_actions, "pay", JNull) = JStr(T_api)
        THEN /\ Len(calls) = 1
             /\ calls[1].method = "pay_bid"
             /\ calls[1].params = [hash |-> op.bid.hash]
        ELSE Raised("PaymentNotAvailableError") /\ calls = <<>>

\* C2: safe_cancel sends cancel_bid (one request, with bid.hash) only when the
\* cancel capability is the text "api"; for every other value of it, or none,
\* it raises CancelNotAvailableError and sends nothing, and the message
\* carries the cancel link exactly when the value is an http link.
C2_SafeCancelGuard ==
    (op.name = "safe_cancel" /\ isdict(op.bid.api_actions)) =>
        LET cancel == Get(op.bid.api_actions, "cancel", JNull)
        IN  IF cancel = JStr(T_api)
            THEN /\ Len(calls) = 1
                 /\ calls[1].method = "cancel_bid"
                 /\ calls[1].params = [hash |-> op.bid.hash]
            ELSE /\ Raised("CancelNotAvailableError")
                 /\ calls = <<>>
                 /\ CarriesUrl(outcome.message)
                      <=> (cancel.t = "str" /\ startswith(cancel.v, T_http))

\* a field the upstream marks required: req is the number 1 or the text "1"
MarkedRequired(f) == "req" \in DOMAIN f.v /\ f.v["req"] \in {JInt(1), JStr(T_1)}
NameOf(f) == Get(f, "name", JName("")).v
\* a required field that is absent from the caller's mapping or empty in it
IsMissing(f, fields) ==
    MarkedRequired(f) /\ (NameOf(f) \notin DOMAIN fields \/ fields[NameOf(f)] = "")
\* full_exchange with validation fetched a direction one of whose required
\* fields the caller did not fill
ValidationFails ==
    /\ op.name = "full_exchange"
    /\ op.validate
    /\ locals.direction # JNull
    /\ \E i \in DOMAIN all_fields(locals.direction) :
          IsMissing(all_fields(locals.direction)[i], op.fields)

\* C3: when a required field of the fetched direction is absent from or empty
\* in the caller's mapping, full_exchange (validation enabled) ends with an
\* error after the direction fetch and never sends a create_bid request.
C3_NoCreateWhenFieldMissing ==
    ValidationFails =>
        /\ pc = "done"
        /\ outcome.status = "error"
        /\ CallMethods = <<"get_calc", "get_direction">>
C3_Witness ==
    /\ ValidationFails
    /\ Raised("ValidationError")
    /\ \E n \in DOMAIN op.fields : op.fields[n] = ""

MissingNames ==
    {NameOf(all_fields(locals.direction)[i]) :
        i \in {j \in DOMAIN all_fields(locals.direction) :
                 IsMissing(all_fields(locals.direction)[j], op.fields)}}
RequiredNames ==
    {NameOf(all_fields(locals.direction)[i]) :
        i \in {j \in DOMAIN all_fields(locals.direction) :
                 MarkedRequired(all_fields(locals.direction)[j])}}
\* the names in the first list of the message and those in its second list
ListedMissing(message) ==
    {message[i].key : i \in {j \in DOMAIN message : "key" \in DOMAIN message[j]}}
ListedRequired(message) ==
    {message[i].field : i \in {j \in DOMAIN message : "field" \in DOMAIN message[j]}}
CountMissing(message) ==
    Cardinality({j \in DOMAIN message : "key" \in DOMAIN message[j]})
\* every required field of the direction carries a name and a label that are texts
RequiredFieldsNamed ==
    \A i \in DOMAIN all_fields(locals.direction) :
        LET f == all_fields(locals.direction)[i]
        IN  MarkedRequired(f) =>
                /\ "name" \in DOMAIN f.v /\ f.v["name"].t = "str"
                /\ Get(f, "label", JName("")).t = "str"

C5_ValidationBeforeAnyCall ==
    Raised("ValidationError") => calls = <<>>

\* C5 as amended: a ValidationError of calculate, create_bid, get_bid_status,
\* and the bad-side one of full_exchange, is raised before any request; the
\* missing-fields one of full_exchange is raised after its get_calc and
\* get_direction requests and before any create_bid request.
C5_ValidationBeforeCreate ==
    Raised("ValidationError") =>
        \/ calls = <<>>
        \/ ValidationFails /\ CallMethods = <<"get_calc", "get_direction">>
C5_Witness ==
    /\ Raised("ValidationError")
    /\ op.name = "full_exchange"
    /\ Len(calls) = 2

ValidSide(action) ==
    action.t = "str" /\ action.v \in {"give", "get", "give_com", "get_com"}

\* C6: calculate and create_bid called with a side outside give, get,
\* give_com, get_com raise ValidationError and send no request.
C6_BadSideRejected ==
    (op.name \in {"calculate", "create_bid"} /\ ~ValidSide(op.action)) =>
        Raised("ValidationError") /\ calls = <<>>
C6_Witness ==
    /\ op.name = "calculate"
    /\ op.action = JName("sideways")
    /\ Raised("ValidationError")
    /\ calls = <<>>

Given(x) == x # JNull /\ x # JName("")

\* C7: get_bid_status with neither a hash nor an id (absent or empty) raises
\* ValidationError and sends no request; with one of them it sends exactly one
\* bid_info request.
C7_StatusNeedsHashOrId ==
    op.name = "get_bid_status" =>
        IF ~Given(op.hash) /\ ~Given(op.bid_id)
        THEN Raised("ValidationError") /\ calls = <<>>
        ELSE CallMethods = <<"bid_info">> /\ ~Raised("ValidationError")
C7_Witness ==
    /\ op.name = "get_bid_status"
    /\ op.hash = JName("")
    /\ op.bid_id = JNull
    /\ Raised("ValidationError")

\* the operation ended on a response whose body was decoded
Decoded ==
    pc = "done" /\ last.net = "ok" /\ last.status = 200 /\ last.body.text = "json"
\* the envelope has no error key, or its error is the number 0 or the text "0"
EnvelopeSuccess(data) ==
    ~isdict(data) \/ "error" \notin DOMAIN data.v \/ data.v["error"] \in {JInt(0), JStr(T_0)}
\* the exception of a business failure: it carries the upstream error code
BusinessError ==
    outcome.status = "error" /\ IsA(outcome.err, "APIResponseError") /\ outcome.code # NoCode

\* C8: an envelope is a success exactly when it has no error key or its error
\* is the number 0 or the text "0"; every other error value, the number 1 and
\* the text "1" among them, raises a business error.
C8_ErrorComparedAsText ==
    Decoded => (EnvelopeSuccess(last.body.json) <=> ~BusinessError)
C8_Witness ==
    /\ Decoded
    /\ isdict(last.body.json)
    /\ Get(last.body.json, "error", JNull) = JStr(T_0)
    /\ outcome.status = "ok"

Failed == Decoded /\ ~EnvelopeSuccess(last.body.json)
ErrorText == Str(Get(last.body.json, "error_text", JStr(T_empty)))
\* the known phrases in their order, and the exception of each
Phrases == <<P_direction_not_found, P_method_not_supported, P_no_bid_exists, P_api_disabled>>
Kinds == <<"DirectionNotFoundError", "MethodNotSupportedError", "BidNotFoundError",
           "APIResponseError">>
Matching == {i \in DOMAIN Phrases : contains(lower(ErrorText), Phrases[i])}

\* C9: on a business failure the exception is that of the first phrase, in the
\* order direction not found, method not supported, no bid exists, api
\* disabled, that error_text contains without regard to case.
C9_FirstPhraseWins ==
    (Failed /\ Matching # {}) =>
        LET first == CHOOSE i \in Matching : \A j \in Matching : i <= j
        IN  /\ Raised(Kinds[first])
            /\ first = 4 => outcome.message = <<Lit("API disabled")>>
C9_Witness ==
    /\ Failed
    /\ Get(last.body.json, "error_text", JNull) = JStr(E_bid_then_direction)
    /\ Raised("DirectionNotFoundError")

\* C10 as stated: a business failure whose error_text holds no known phrase
\* raises the generic APIResponseError with the error code as text and the raw
\* error text as its message.
C10_GenericCarriesRawText ==
    (Failed /\ Matching = {}) =>
        /\ Raised("APIResponseError")
        /\ outcome.code = JStr(Str(last.body.json.v["error"]))
        /\ outcome.message = <<Val(ErrorText)>>

\* C10 as amended: the message is the error text with the surrounding
\* whitespace stripped or, when that is empty, a placeholder that names the
\* error code.
C10_GenericCarriesStrippedText ==
    (Failed /\ Matching = {}) =>
        /\ Raised("APIResponseError")
        /\ outcome.code = JStr(Str(last.body.json.v["error"]))
        /\ outcome.message =
              IF strip(ErrorText) # <<>> THEN <<Val(strip(ErrorText))>>
              ELSE <<Lit("unknown error (code="), Val(Str(last.body.json.v["error"])), Lit(")")>>
C10_Witness ==
    /\ Failed
    /\ "error_text" \notin DOMAIN last.body.json.v
    /\ Raised("APIResponseError")
    /\ outcome.message # <<Val(T_empty)>>

\* the operation ended on a response of the upstream or a failure of the network
Answered == pc = "done" /\ last.net # "none"
\* the operations that hand the result of _request to the caller as it is
Transparent == {"pay_bid", "cancel_bid", "confirm_bid", "safe_pay", "safe_cancel"}

\* C11: on success the transport returns the value of the envelope's data key
\* when the decoded body is a keyed map holding data (whatever the value, null
\* and empty included), and the whole decoded body otherwise.
C11_DataUnwrapped ==
    (Answered /\ op.name \in Transparent /\ outcome.status = "ok") =>
        LET body == last.body.json
        IN  outcome.value = IF isdict(body) /\ "data" \in DOMAIN body.v
                            THEN body.v["data"] ELSE body
C11_Witness ==
    /\ Answered
    /\ op.name = "pay_bid"
    /\ outcome.status = "ok"
    /\ isdict(last.body.json)
    /\ "data" \in DOMAIN last.body.json.v
    /\ last.body.json.v["data"] = JNull
    /\ outcome.value = JNull

C13_UnreadableBodyIsResponseError ==
    (Answered /\ last.net = "ok" /\ last.status \in 200..299
        /\ last.body.text \in {"empty", "blank", "invalid"}) =>
        /\ Raised("APIResponseError")
        /\ outcome.value = JNull
        /\ outcome.code = NoCode
        /\ outcome.method = pending.method
C13_Witness ==
    /\ Answered
    /\ last.status = 200
    /\ last.body.text = "blank"
    /\ Raised("APIResponseError")

\* the operations that call the transport once
SingleRequest ==
    {"test_connection", "get_currencies", "get_directions", "find_direction",
     "get_direction", "calculate", "create_bid", "get_bid_status", "cancel_bid",
     "pay_bid", "confirm_bid", "get_exchanges"}

\* C14: each of these operations sends exactly one request once its local
\* preconditions pass, whether the call succeeds or fails: it ends without a
\* request only on its own ValidationError, and never sends a second one.
C14_OneRequestPerCall ==
    op.name \in SingleRequest =>
        /\ Len(calls) <= 1
        /\ pc = "wait" => Len(calls) = 1
        /\ pc = "done" => (calls = <<>> <=> Raised("ValidationError"))
C14_Witness ==
    /\ pc = "done"
    /\ op.name = "pay_bid"
    /\ Raised("NetworkError")
    /\ Len(calls) = 1

\* get_direction returned a direction detail built from the payload Detail
Fetched == Answered /\ op.name = "get_direction" /\ outcome.status = "ok"
Detail ==
    IF "data" \in DOMAIN last.body.json.v THEN last.body.json.v["data"] ELSE last.body.json
\* s holds x
Holds(s, x) == \E i \in DOMAIN s : s[i] = x

\* C15: required_fields and optional_fields partition all_fields: every field
\* is in exactly one of them, in required_fields exactly when its req flag is
\* the number 1 or the text "1" (an absent flag makes it optional), and both
\* keep the order of all_fields.
C15_RequiredOptionalPartition ==
    Fetched =>
        LET all == all_fields(outcome.value)
            req == required_fields(outcome.value)
            opt == optional_fields(outcome.value)
        IN  /\ req = SelectSeq(all, MarkedRequired)
            /\ opt = SelectSeq(all, LAMBDA f : ~MarkedRequired(f))
            /\ Len(req) + Len(opt) = Len(all)
            /\ \A i \in DOMAIN all :
                  /\ Holds(req, all[i]) # Holds(opt, all[i])
                  /\ Holds(req, all[i]) <=> MarkedRequired(all[i])
                  /\ _is_required(all[i]) <=> MarkedRequired(all[i])
C15_Witness ==
    /\ Fetched
    /\ \E i \in DOMAIN all_fields(outcome.value) :
          LET f == all_fields(outcome.value)[i]
          IN  Get(f, "req", JNull) = JBool(TRUE) /\ Holds(optional_fields(outcome.value), f)
    /\ \E i \in DOMAIN all_fields(outcome.value) :
          LET f == all_fields(outcome.value)[i]
          IN  Get(f, "req", JNull) = JStr(T_1) /\ Holds(required_fields(outcome.value), f)

Groups == {"give_fields", "get_fields", "dir_fields"}
\* the number of elements of a group of the payload
GroupSize(x) ==
    CASE x.t = "dict" -> Cardinality(DOMAIN x.v)
      [] x.t = "list" -> Len(x.v)
      [] OTHER -> 0
RECURSIVE SumSizes(_, _)
SumSizes(data, G) ==
    IF G = {} THEN 0
    ELSE LET g == CHOOSE h \in G : TRUE
         IN  GroupSize(Get(data, g, JList(<<>>))) + SumSizes(data, G \ {g})

\* C16: the normalizer is idempotent; a keyed map normalizes to a sequence
\* holding exactly its values, a list to itself, any other shape to the empty
\* sequence; so the direction detail holds as many fields as its payload's
\* groups hold elements, whether a group comes as a keyed map or as a list.
C16_NormalizeShapeIndependent ==
    Fetched =>
        /\ \A g \in Groups :
              LET x == Get(Detail, g, JList(<<>>))
                  n == _normalize_fields(x)
              IN  /\ n.t = "list"
                  /\ _normalize_fields(n) = n
                  /\ outcome.value[g] = n.v
                  /\ x.t = "list" => n = x
                  /\ x.t = "dict" =>
                        /\ Len(n.v) = Cardinality(DOMAIN x.v)
                        /\ {n.v[i] : i \in DOMAIN n.v} = {x.v[k] : k \in DOMAIN x.v}
                  /\ x.t \notin {"list", "dict"} => n = JList(<<>>)
        /\ Len(all_fields(outcome.value)) = SumSizes(Detail, Groups)
C16_Witness ==
    /\ Fetched
    /\ Get(Detail, "give_fields", JNull).t = "dict"
    /\ Get(Detail, "get_fields", JNull).t = "list"
    /\ Len(all_fields(outcome.value)) = 3

\* find_direction got the list Detail from get_directions
Listed ==
    /\ Answered /\ op.name = "find_direction"
    /\ last.net = "ok" /\ last.status \notin 400..599 /\ last.body.text = "json"
    /\ EnvelopeSuccess(last.body.json)
    /\ Detail.t = "list"
GiveTitle(d) == Get(d, "currency_give_title", JStr(T_empty))
GetTitle(d) == Get(d, "currency_get_title", JStr(T_empty))
\* every direction of the list that is a keyed map has texts as its titles
TitlesAreTexts ==
    \A i \in DOMAIN Detail.v :
        isdict(Detail.v[i]) => GiveTitle(Detail.v[i]).t = "str" /\ GetTitle(Detail.v[i]).t = "str"
\* the direction d matches the search texts of the call
IsMatch(d) ==
    /\ isdict(d)
    /\ contains(lower(GiveTitle(d).v), lower(op.currency_give))
    /\ \A k \in DOMAIN split(op.currency_get) :
          contains(lower(GetTitle(d).v), lower(split(op.currency_get)[k]))

Reports(message, x) ==
    \E i \in DOMAIN message : "val" \in DOMAIN message[i] /\ message[i].val = x

\* C18: safe_pay on an order whose pay capability is an http link raises
\* PaymentNotAvailableError with that link in the message; for any other pay
\* value but "api" the message carries no link and reports the pay value.
C18_SafePayMessage ==
    (op.name = "safe_pay" /\ isdict(op.bid.api_actions)
        /\ Get(op.bid.api_actions, "pay", JNull) # JStr(T_api)) =>
        LET pay == Get(op.bid.api_actions, "pay", JNull)
        IN  /\ Raised("PaymentNotAvailableError")
            /\ IF pay.t = "str" /\ startswith(pay.v, T_http)
               THEN Reports(outcome.message, pay.v)
               ELSE ~CarriesUrl(outcome.message) /\ Reports(outcome.message, Str(pay))

\* full_exchange created the order after a calculation that clamped the amount
CreatedAfterClamp ==
    /\ pc = "done" /\ op.name = "full_exchange"
    /\ locals.calc # JNull /\ locals.calc.changed
    /\ outcome.status = "ok"
\* what full_exchange returns for the same create_bid response when the
\* calculation reports no clamp: the order create_bid builds from it
UnclampedResult == create_bid_end(_request("create_bid", last))

\* C19: when calculate reports a clamped amount full_exchange goes on to
\* create_bid, and its result differs from that of the same run without the
\* clamp.
C19_ClampObservable ==
    (op.name = "full_exchange" /\ locals.calc # JNull /\ locals.calc.changed) =>
        /\ Len(calls) >= 2
        /\ CreatedAfterClamp => outcome # UnclampedResult

\* C20: a snapshot returned by create_bid or get_bid_status takes its capability
\* map from the response of that call alone, whatever snapshot the caller
\* holds from an earlier call; and the snapshot the caller holds changes only
\* when the caller replaces it by a newly returned one: no operation of the
\* client alters it.
C20_SnapshotFreshAndKept ==
    /\ [](\A n \in {"create_bid", "get_bid_status"} :
            (Answered /\ op.name = n /\ outcome.status = "ok") =>
                outcome.value.api_actions = Get(Detail, "api_actions", JDict(EmptyMap)))
    /\ [][held' # held =>
            /\ pc = "done" /\ pc' = "idle"
            /\ op.name \in {"create_bid", "get_bid_status"}
            /\ held' = outcome.value]_vars
C20_Witness ==
    /\ Answered
    /\ op.name = "get_bid_status"
    /\ outcome.status = "ok"
    /\ held # NoBid
    /\ isdict(held.api_actions)
    /\ isdict(outcome.value.api_actions)
    /\ Get(held.api_actions, "pay", JNull) = JStr(T_pay_url)
    /\ Get(outcome.value.api_actions, "pay", JNull) = JStr(T_disabled)

(***************************************************************************)
(* C22: calculate and create_bid send calc_action as the integer of the    *)
(* fixed mapping give -> 1, get -> 2, give_com -> 3, get_com -> 4, and the *)
(* two operations treat every side value alike: the same sides are sent,   *)
(* with the same integer, and the same sides are rejected.                 *)
(***************************************************************************)
SideCode ==
    (JName("give") :> JInt(1)) @@ (JName("get") :> JInt(2))
    @@ (JName("give_com") :> JInt(3)) @@ (JName("get_com") :> JInt(4))

SentSide(step) == IF step.done THEN JNull ELSE step.req.params["calc_action"]

C22_CalcActionMapping ==
    /\ (op.name \in {"calculate", "create_bid"} /\ calls # <<>>) =>
          /\ op.action \in DOMAIN SideCode
          /\ calls[1].params["calc_action"] = SideCode[op.action]
    /\ \A action \in Sides, d \in DirectionIds, amount \in Amounts :
          SentSide(calculate_begin(d, amount, action, JNull))
            = SentSide(create_bid_begin(d, amount, EmptyMap, action, JNull, JNull, JNull))

\* C22 as amended: both operations compute calc_action by the fixed mapping
\* and treat every side value alike; calculate always sends that integer, and
\* create_bid sends it unless the caller's field mapping has a key named
\* calc_action, whose value is then sent in its place.
C22_CalcActionUnlessOverridden ==
    /\ (op.name \in {"calculate", "create_bid"} /\ calls # <<>>) =>
          /\ op.action \in DOMAIN SideCode
          /\ calls[1].params["calc_action"] =
                IF op.name = "create_bid" /\ "calc_action" \in DOMAIN op.fields
                THEN JName(op.fields["calc_action"])
                ELSE SideCode[op.action]
    /\ \A action \in Sides, d \in DirectionIds, amount \in Amounts :
          SentSide(calculate_begin(d, amount, action, JNull))
            = SentSide(create_bid_begin(d, amount, EmptyMap, action, JNull, JNull, JNull))

C22_Witness ==
    /\ op.name = "create_bid" /\ pc = "done" /\ outcome.status = "ok"
    /\ op.action = JName("get_com")
    /\ calls[1].params["calc_action"] = JInt(4)

(***************************************************************************)
(* C23: every order snapshot create_bid or get_bid_status returns has a    *)
(* present, non-empty hash, so the snapshot a caller keeps has one and a   *)
(* safe_pay or safe_cancel made from it sends a non-empty hash.            *)
(***************************************************************************)
ReturnedSnapshot ==
    pc = "done" /\ op.name \in {"create_bid", "get_bid_status"} /\ outcome.status = "ok"

C23_HashPresent ==
    /\ ReturnedSnapshot => Truthy(outcome.value.hash)
    /\ held # NoBid => Truthy(held.hash)
    /\ (op.name \in {"safe_pay", "safe_cancel"} /\ calls # <<>>) =>
          Truthy(calls[1].params["hash"])

(***************************************************************************)
(* C24: full_exchange sends get_calc, then get_direction (only with        *)
(* validation enabled), then create_bid, each at most once; a step that    *)
(* fails ends the operation with that step's error and nothing is sent     *)
(* after it, so create_bid is sent only after calculate succeeded and,     *)
(* with validation, after the direction was fetched and no required field  *)
(* was found missing.                                                      *)
(***************************************************************************)
ExchangeOrder ==
    IF op.validate THEN <<"get_calc", "get_direction", "create_bid">>
    ELSE <<"get_calc", "create_bid">>

\* what the step that sent the latest request made of its response
StepResult ==
    CASE pending.method = "get_calc" -> calculate_end(_request("get_calc", last))
      [] pending.method = "get_direction" ->
            get_direction_end(_request("get_direction", last))
      [] pending.method = "create_bid" -> create_bid_end(_request("create_bid", last))

C24_ExchangeOrder ==
    op.name = "full_exchange" =>
        /\ Len(calls) <= Len(ExchangeOrder)
        /\ CallMethods = SubSeq(ExchangeOrder, 1, Len(calls))
        /\ (\E i \in DOMAIN calls : calls[i].method = "create_bid") =>
              /\ locals.calc # JNull
              /\ op.validate => (locals.direction # JNull /\ ~ValidationFails)
        /\ (pc = "done" /\ calls # <<>>) =>
              IF outcome.status = "error"
              THEN outcome = StepResult
                   \/ (ValidationFails /\ outcome.err \in {"ValidationError", "TypeError"})
              ELSE CallMethods = ExchangeOrder /\ outcome = StepResult

C24_Witness ==
    /\ op.name = "full_exchange" /\ op.validate
    /\ pc = "done" /\ outcome.status = "ok"
    /\ CallMethods = <<"get_calc", "get_direction", "create_bid">>
    /\ \E n \in DOMAIN op.fields : op.fields[n] = "x"

(***************************************************************************)
(* C25: the bid_info request of get_bid_status carries exactly one of the  *)
(* two identifiers, hash or id, never both.                                *)
(***************************************************************************)
StatusRequest == op.name = "get_bid_status" /\ calls # <<>>
Identifiers == DOMAIN calls[1].params \cap {"hash", "id"}

C25_ExactlyOneIdentifier ==
    StatusRequest => Cardinality(Identifiers) = 1

\* C25 as amended: get_bid_status needs at least one of hash and bid_id; its
\* bid_info request carries every identifier the caller gave (hash under
\* "hash", bid_id under "id") and nothing else, so both when both are given.
C25_EachGivenIdentifier ==
    StatusRequest =>
        /\ Identifiers = DOMAIN calls[1].params
        /\ Identifiers # {}
        /\ "hash" \in Identifiers <=> Given(op.hash)
        /\ "id" \in Identifiers <=> Given(op.bid_id)
        /\ Given(op.hash) => calls[1].params["hash"] = op.hash
        /\ Given(op.bid_id) => calls[1].params["id"] = op.bid_id

C25_Witness ==
    /\ StatusRequest /\ pc = "done" /\ outcome.status = "ok"
    /\ Given(op.hash) /\ Given(op.bid_id)
    /\ Identifiers = {"hash", "id"}

(***************************************************************************)
(* C26: create_bid validates no required field: with a valid side it sends *)
(* its create_bid request whatever the caller's mapping holds, also an     *)
(* empty one.  The form holds direction_id, calc_amount and calc_action,   *)
(* then api_id, partner_id and callback_url when given, and the caller's   *)
(* field values are merged last: every key of the caller's mapping is in   *)
(* the form with the caller's value, also when it is the name of one of    *)
(* those parameters.                                                       *)
(***************************************************************************)
CreateRequest == op.name = "create_bid" /\ calls # <<>>

\* the parameters create_bid itself puts into the form
Reserved ==
    [direction_id |-> JStr(Str(op.direction_id)), calc_amount |-> op.amount,
     calc_action |-> SideCode[op.action]]
    @@ (IF Truthy(op.api_id) THEN [api_id |-> op.api_id] ELSE EmptyMap)
    @@ (IF op.partner_id # JNull THEN [partner_id |-> op.partner_id] ELSE EmptyMap)
    @@ (IF Truthy(op.callback_url) THEN [callback_url |-> op.callback_url] ELSE EmptyMap)

OwnStep(t) == (CHOOSE c \in ThreadCalls : c.op = threads[t].op).step

OwnRequestAndResult(t) ==
    LET call == threads[t]
        step == OwnStep(t)
    IN  /\ call.sent =
              IF step.done THEN <<>>
              ELSE <<[url |-> <<config.base_url, step.req.method>>,
                      headers |-> config.headers, data |-> step.req.params,
                      timeout |-> config.timeout]>>
        /\ call.pc = "done" =>
              call.outcome =
                  IF step.done THEN step.outcome
                  ELSE ThreadEnd(call.op.name, _request(step.req.method, call.resp))

C21_NoSharedMutableState ==
    /\ [](config \in Instances)
    /\ [](\A t \in Threads : threads[t].pc # "idle" => OwnRequestAndResult(t))
    /\ [][config' = config]_vars

C21_Witness ==
    /\ threads["t1"].pc = "done" /\ threads["t1"].outcome.status = "ok"
    /\ threads["t2"].pc = "wait"
    /\ threads["t1"].op.name = "calculate" /\ threads["t2"].op.name = "pay_bid"
    /\ "API-LANG" \in DOMAIN config.headers

(***************************************************************************)
(* C28: get_directions_cached makes no upstream call when a successful     *)
(* fetch was made less than 300 seconds before (counted from the time that *)
(* fetch's call read to the time this call reads) and returns the stored   *)
(* list, also an empty one; otherwise it makes exactly one get_directions  *)
(* call and, when it succeeds, stores the result with the time it read.    *)
(***************************************************************************)
\* the age of the stored list when the call in progress began
Age == cached.now - cached.before.timestamp
Stored == cached.before.data # JNull

C28_CacheWithinTTL ==
    cached.pc # "idle" =>
        IF Stored /\ Age < 300
        THEN /\ cached.pc = "done"
             /\ cached.calls = <<>>
             /\ cached.outcome = Ok(cached.before.data)
             /\ _directions_cache = cached.before
        ELSE /\ Len(cached.calls) = 1
             /\ cached.calls[1] = [method |-> "get_directions", params |-> NoParams]
             /\ (cached.pc = "done" /\ cached.outcome.status = "ok") =>
                   _directions_cache =
                       [data |-> cached.outcome.value, timestamp |-> cached.now]

C28_Witness ==
    /\ cached.pc = "done" /\ cached.calls = <<>>
    /\ Age = 299
    /\ cached.outcome = Ok(JList(<<>>))

(***************************************************************************)
(* C29: when the upstream fetch inside get_directions_cached fails, the    *)
(* error reaches the caller (the route answers 500), the cached data and   *)
(* timestamp stay as they were, and a list stored 300 seconds or more      *)
(* before is never returned: what is returned is a stored list younger     *)
(* than 300 seconds or the list just fetched.                              *)
(***************************************************************************)
\* what api.get_directions() made of the answer to the fetch
FetchResult == get_directions_end(_request("get_directions", cached.resp))

C29_FailureLeavesCacheAlone ==
    cached.pc = "done" =>
        /\ (cached.calls # <<>> /\ FetchResult.status = "error") =>
              /\ cached.outcome = FetchResult
              /\ _directions_cache = cached.before
              /\ get_directions_route(cached.outcome).status = 500
        /\ cached.outcome.status = "ok" =>
              \/ /\ cached.calls = <<>>
                 /\ Stored /\ Age < 300
                 /\ cached.outcome.value = cached.before.data
              \/ /\ cached.calls # <<>>
                 /\ FetchResult.status = "ok"
                 /\ cached.outcome.value = FetchResult.value

C29_Witness ==
    /\ cached.pc = "done"
    /\ Stored /\ Age = 300
    /\ cached.outcome.status = "error" /\ cached.outcome.err = "NetworkError"
    /\ _directions_cache = cached.before

(***************************************************************************)
(* C30: in the status-poll route a paid or error notification is sent only *)
(* when the fetched status title differs from the stored one the request   *)
(* read, and each change of the stored status of an order leads to at most *)
(* one notification, also when two polls of the order run together and see *)
(* the same change: there are never more notifications than changes.       *)
(***************************************************************************)
C30_OneNotificationPerChange ==
    /\ \A i \in DOMAIN sent : sent[i].old # sent[i].new
    /\ Len(sent) <= changes

====
